---- MODULE Spec2Model ----
(***************************************************************************)
(* Ingestion and reconciliation pipelines of SPO_Portfolio_Model:          *)
(*   etl/pipelines/fetch_price_history.py   (price ingestion, main)        *)
(*   etl/pipelines/fix_zero_volume_nse.py   (volume reconciliation)        *)
(*   etl/pipelines/fetch_company_metadata.py (metadata enrichment)         *)
(*   etl/pipelines/fill_listing_date_nse.py (listing-date backfill)        *)
(*   etl/utils/validation.py, etl/utils/db.py, database/Models.py          *)
(*                                                                         *)
(* Strings are sequences of one-character strings, so that strip(),        *)
(* split("."), upper() and replace(".NS", "") are computed, not assumed.   *)
(* An optional number (a pandas cell, a nullable column) is the empty set  *)
(* when absent (NaN / NULL) and a singleton {n} when present.              *)
(***************************************************************************)
EXTENDS Integers, Sequences, FiniteSets, TLC

\* ------------------------------------------------------------------ bounds
\* number of pipeline invocations (of any pipeline) in one behaviour
MaxRuns == 2
\* number of invocations in a behaviour of the metadata specification
MaxMetaRuns == 3
\* injected storage, network and file-system failures in one behaviour
MaxFaults == 1
\* tickers per download batch (25 in the source, scaled to the universe size)
BATCH_SIZE == 2
\* lines of the universe file given to read_universe on its own
MaxLines == 3
\* calls of ensure_companies on its own
MaxCalls == 3

\* rows of a raw frame given to validate_ohlcv on its own
MaxRows == 3

\* ----------------------------------------------------------------- strings
\* Python None, kept apart from every string (its element is no character)
None == <<"None">>

\* str.strip() == "" : every character is white space
IsBlankStr(s) == \A i \in 1..Len(s) : s[i] = " "

\* Python truthiness of an optional string: not None and not ""
Truthy(v) == v # None /\ Len(v) > 0

\* str.upper() on one character
UpperChar(c) == CASE c = "a" -> "A" [] c = "b" -> "B" [] c = "c" -> "C"
                  [] c = "n" -> "N" [] c = "s" -> "S" [] OTHER -> c

\* str.upper()
Upper(s) == [i \in 1..Len(s) |-> UpperChar(s[i])]

\* s.split(".")[0] : the characters before the first dot
RECURSIVE SplitDotHead(_)
SplitDotHead(s) ==
    IF s = <<>> \/ Head(s) = "." THEN <<>>
    ELSE <<Head(s)>> \o SplitDotHead(Tail(s))

\* s.replace(".NS", "") : every non-overlapping occurrence removed, left to right
RECURSIVE ReplaceDotNS(_)
ReplaceDotNS(s) ==
    IF s = <<>> THEN <<>>
    ELSE IF Len(s) >= 3 /\ SubSeq(s, 1, 3) = <<".", "N", "S">>
         THEN ReplaceDotNS(SubSeq(s, 4, Len(s)))
         ELSE <<Head(s)>> \o ReplaceDotNS(Tail(s))

\* elements of a sequence
Range(s) == {s[i] : i \in 1..Len(s)}

\* ----------------------------------------------------------------- symbols
SymA   == <<"A", ".", "N", "S">>
SymB   == <<"b", ".", "N", "S">>
SymABO == <<"A", ".", "B", "O">>
Symbols == {SymA, SymB, SymABO}

\* the universe file, as the list read_universe returns; Missing: no file
Missing == <<None>>
Universes == { <<SymA, SymB, SymABO, SymA>>, Missing }

\* ------------------------------------------------------------- OHLCV frames
PriceCols == {"Open", "High", "Low", "Close", "Adj Close"}
AllCols   == PriceCols \cup {"Volume"}

\* one DataFrame row: index label (optional date) and one optional cell per column
Row(d, o, h, l, c, a, v) ==
    [date |-> d,
     cells |-> [k \in AllCols |->
                  CASE k = "Open" -> o [] k = "High" -> h [] k = "Low" -> l
                    [] k = "Close" -> c [] k = "Adj Close" -> a [] OTHER -> v]]

Frame(cols, rows) == [cols |-> cols, rows |-> rows]

\* a DataFrame without rows (DataFrame.empty)
FEmpty == Frame(AllCols, <<>>)
\* two clean rows; the bar of date 2 carries volume 0
FOld   == Frame(AllCols, << Row({2}, {10}, {12}, {9}, {11}, {11}, {0}),
                            Row({3}, {11}, {13}, {10}, {12}, {12}, {5}) >>)
\* same dates with other prices, a negative close and a negative volume on
\* date 3, a new date 4 with no volume and no open
FNew   == Frame(AllCols, << Row({2}, {20}, {22}, {19}, {21}, {21}, {7}),
                            Row({3}, {21}, {23}, {20}, {0 - 5}, {22}, {0 - 8}),
                            Row({4}, {},   {24}, {21}, {23}, {23}, {}) >>)
\* a repeated date, and a row without any close before the first valid one
FDup   == Frame(AllCols, << Row({1}, {5}, {5}, {5}, {}, {}, {1}),
                            Row({2}, {6}, {6}, {6}, {6}, {6}, {0}),
                            Row({2}, {7}, {7}, {7}, {7}, {7}, {3}) >>)
\* provider response without the "Adj Close" column
FNoAdj == Frame(AllCols \ {"Adj Close"},
                << Row({2}, {10}, {12}, {9}, {11}, {}, {4}) >>)
\* rows that the cleaning empties: a row of NaN only, an undated row, no valid close
FBad   == Frame(AllCols, << Row({1}, {}, {}, {}, {}, {}, {}),
                            Row({},  {3}, {3}, {3}, {3}, {3}, {3}),
                            Row({2}, {4}, {4}, {4}, {0}, {4}, {2}) >>)

Frames == {FEmpty, FOld, FNew, FDup, FNoAdj, FBad}

\* what the price source holds for each symbol
Upstreams ==
    { [s \in Symbols |-> FOld],
      [s \in Symbols |-> IF s = SymA THEN FOld ELSE FNew],
      [s \in Symbols |-> IF s = SymA THEN FOld ELSE IF s = SymB THEN FNoAdj ELSE FNew],
      [s \in Symbols |-> IF s = SymA THEN FEmpty ELSE IF s = SymB THEN FNoAdj ELSE FNew],
      [s \in Symbols |-> IF s = SymA THEN FDup ELSE IF s = SymB THEN FOld ELSE FBad] }

\* ------------------------------------------------------------ validate_ohlcv
\* df[c] <= 0 on one cell (NaN compares False)
NonPositive(cell) == \E x \in cell : x <= 0

\* ffill(limit=1): only the cell of the row just before
FfillAt_limit1(rows, i, c) ==
    IF i = 0 THEN {}
    ELSE IF rows[i].cells[c] # {} THEN rows[i].cells[c]
         ELSE IF i = 1 THEN {} ELSE rows[i - 1].cells[c]

\* DataFrame.ffill on one column: the nearest earlier non-NaN cell, in row order
RECURSIVE FfillAt(_, _, _)
FfillAt(rows, i, c) ==
    IF i = 0 THEN {}
    ELSE IF rows[i].cells[c] # {} THEN rows[i].cells[c]
         ELSE FfillAt(rows, i - 1, c)

\* df.dropna(how="all") then df[~df.index.isna()]
DropEmptyRows(df) ==
    LET s1 == SelectSeq(df.rows, LAMBDA r : \E c \in df.cols : r.cells[c] # {})
    IN  SelectSeq(s1, LAMBDA r : r.date # {})

\* only negative prices are nulled, a price of 0 is kept
NullNonPositive_negative(cols, rows) ==
    [i \in 1..Len(rows) |->
        [rows[i] EXCEPT !.cells =
            [c \in AllCols |->
                IF c \in PriceCols \cap cols /\ (\E x \in rows[i].cells[c] : x < 0)
                THEN {} ELSE rows[i].cells[c]]]]

\* df.loc[df[c] <= 0, c] = pd.NA for every price column present
NullNonPositive(cols, rows) ==
    [i \in 1..Len(rows) |->
        [rows[i] EXCEPT !.cells =
            [c \in AllCols |->
                IF c \in PriceCols \cap cols /\ NonPositive(rows[i].cells[c])
                THEN {} ELSE rows[i].cells[c]]]]

\* the forward fill of the five price columns and fillna(0) of Volume
FillRows(cols, rows) ==
    [i \in 1..Len(rows) |->
        [rows[i] EXCEPT !.cells =
            [c \in AllCols |->
                IF c \in PriceCols THEN FfillAt(rows, i, c)
                ELSE IF c \in cols /\ rows[i].cells[c] = {} THEN {0}
                ELSE rows[i].cells[c]]]]

\* validate_ohlcv: raised = TRUE is the KeyError of df[[...five columns...]]
validate_ohlcv(df) ==
    LET kept   == DropEmptyRows(df)
        nulled == NullNonPositive(df.cols, kept)
    IN  IF ~(PriceCols \subseteq df.cols)
        THEN [raised |-> TRUE, df |-> Frame(df.cols, <<>>)]
        ELSE [raised |-> FALSE,
              df |-> Frame(df.cols,
                        SelectSeq(FillRows(df.cols, nulled),
                                  LAMBDA r : r.cells["Close"] # {}
                                             /\ r.cells["Adj Close"] # {}))]


\* ------------------------------------------------------------------- store
EmptyFn == [x \in {} |-> {}]

Min(a, b) == IF a < b THEN a ELSE b

\* a Company row as ensure_companies creates it
NewCompany(sym, exch, name) ==
    [symbol |-> sym, exchange |-> exch, name |-> name, sector |-> None,
     industry |-> None, isin |-> None, listing_date |-> None]

\* select(Company).where(symbol == sym, exchange == exch)
FindCompany(view, sym, exch) ==
    {id \in DOMAIN view : view[id].symbol = sym /\ view[id].exchange = exch}

\* ensure_companies whose SELECT does not see the rows the same call has
\* flushed
RECURSIVE ensure_companies_stale(_, _, _)
ensure_companies_stale(view, nid, symbols) ==
    IF symbols = <<>>
    THEN [mapping |-> EmptyFn, created |-> EmptyFn, nextId |-> nid]
    ELSE LET s     == Head(symbols)
             found == FindCompany(view, s.symbol, s.exchange)
         IN  IF found = {}
             THEN LET c    == NewCompany(s.symbol, s.exchange, s.name)
                      rest == ensure_companies_stale(view, nid + 1, Tail(symbols))
                  IN  [mapping |-> rest.mapping @@ (s.symbol :> nid),
                       created |-> rest.created @@ (nid :> c),
                       nextId  |-> rest.nextId]
             ELSE LET rest == ensure_companies_stale(view, nid, Tail(symbols))
                  IN  [mapping |-> rest.mapping @@ (s.symbol :> (CHOOSE id \in found : TRUE)),
                       created |-> rest.created,
                       nextId  |-> rest.nextId]

\* ensure_companies over the session's view of the companies table; created
\* rows are flushed, not committed
RECURSIVE ensure_companies(_, _, _)
ensure_companies(view, nid, symbols) ==
    IF symbols = <<>>
    THEN [mapping |-> EmptyFn, created |-> EmptyFn, nextId |-> nid]
    ELSE LET s     == Head(symbols)
             found == FindCompany(view, s.symbol, s.exchange)
         IN  IF found = {}
             THEN LET c    == NewCompany(s.symbol, s.exchange, s.name)
                      rest == ensure_companies((nid :> c) @@ view, nid + 1, Tail(symbols))
                  IN  [mapping |-> rest.mapping @@ (s.symbol :> nid),
                       created |-> rest.created @@ (nid :> c),
                       nextId  |-> rest.nextId]
             ELSE LET rest == ensure_companies(view, nid, Tail(symbols))
                  IN  [mapping |-> rest.mapping @@ (s.symbol :> (CHOOSE id \in found : TRUE)),
                       created |-> rest.created,
                       nextId  |-> rest.nextId]

\* get_existing_dates with the company filter dropped
get_existing_dates_any(bars, company_id) == {k[2] : k \in DOMAIN bars}

\* get_existing_dates: the trade dates stored for company_id
get_existing_dates(bars, company_id) ==
    {k[2] : k \in {kk \in DOMAIN bars : kk[1] = company_id}}

\* the rows insert_into_db turns into PriceHistory objects
ToInsert(existing, df) ==
    SelectSeq(df.rows, LAMBDA r : ~(r.date \subseteq existing))

\* the counter incremented for every row of df, skipped ones included
InsertedCount_all(existing, df) == Len(df.rows)

\* the value insert_into_db returns
InsertedCount(existing, df) == Len(ToInsert(existing, df))

\* PriceHistory(...) built from one cleaned row
MakeBar(df, r) ==
    [open |-> r.cells["Open"], high |-> r.cells["High"], low |-> r.cells["Low"],
     close |-> r.cells["Close"], adj_close |-> r.cells["Adj Close"],
     volume |-> IF "Volume" \in df.cols THEN r.cells["Volume"] ELSE {0}]

\* a flush that replaces the bars of company_id by the rows added
AddBars_replace(bars, company_id, df, rows) ==
    LET keys == {<<company_id, d>> : d \in UNION {r.date : r \in Range(rows)}}
    IN  [k \in {kk \in DOMAIN bars : kk[1] # company_id} \cup keys |->
            IF k \in keys THEN MakeBar(df, CHOOSE r \in Range(rows) : r.date = {k[2]})
            ELSE bars[k]]

\* bars after the rows of one flush are added for company_id
AddBars(bars, company_id, df, rows) ==
    LET keys == {<<company_id, d>> : d \in UNION {r.date : r \in Range(rows)}}
    IN  [k \in DOMAIN bars \cup keys |->
            IF k \in DOMAIN bars THEN bars[k]
            ELSE MakeBar(df, CHOOSE r \in Range(rows) : r.date = {k[2]})]

\* price_history without uq_price_company_date: only the foreign key
CommitRejected_nounique(bars, view, company_id, rows) ==
    company_id \notin DOMAIN view

\* the (company_id, trade_date) pairs that a flush of rows stores a second time
StoredTwice(bars, company_id, rows) ==
    {<<company_id, d>> : d \in
        {d \in UNION {r.date : r \in Range(rows)} :
            \/ <<company_id, d>> \in DOMAIN bars
            \/ Cardinality({i \in 1..Len(rows) : rows[i].date = {d}}) > 1}}

\* uq_price_company_date, and the foreign key to companies
CommitRejected(bars, view, company_id, rows) ==
    \/ Cardinality({r.date : r \in Range(rows)}) < Len(rows)
    \/ \E r \in Range(rows) : \E d \in r.date : <<company_id, d>> \in DOMAIN bars
    \/ company_id \notin DOMAIN view

\* insert_into_db writing every incoming row over the stored one
insert_into_db_upsert(bars, view, company_id, df, dbOk) ==
    LET firstOf(d) == CHOOSE r \in Range(df.rows) : r.date = {d}
        dates == UNION {r.date : r \in Range(df.rows)}
    IN  IF ~dbOk \/ company_id \notin DOMAIN view
        THEN [raised |-> TRUE, inserted |-> 0, committed |-> FALSE, bars |-> bars]
        ELSE [raised |-> FALSE, inserted |-> Len(df.rows), committed |-> df.rows # <<>>,
              bars |-> [k \in DOMAIN bars \cup {<<company_id, d>> : d \in dates} |->
                          IF k[1] = company_id /\ k[2] \in dates
                          THEN MakeBar(df, firstOf(k[2])) ELSE bars[k]]]

\* insert_into_db committing row by row: the rows before the rejected one stay
insert_into_db_rowwise(bars, view, company_id, df, dbOk) ==
    LET existing  == get_existing_dates(bars, company_id)
        to_insert == ToInsert(existing, df)
    IN  IF ~dbOk \/ company_id \notin DOMAIN view
        THEN [raised |-> TRUE, inserted |-> 0, committed |-> FALSE, bars |-> bars]
        ELSE IF to_insert # <<>> /\ CommitRejected(bars, view, company_id, to_insert)
        THEN [raised |-> TRUE, inserted |-> 0, committed |-> TRUE,
              bars |-> AddBars(bars, company_id, df, <<Head(to_insert)>>)]
        ELSE [raised |-> FALSE, inserted |-> InsertedCount(existing, df),
              committed |-> to_insert # <<>>,
              bars |-> AddBars(bars, company_id, df, to_insert)]

\* insert_into_db: raised = TRUE is the SQLAlchemyError of the SELECT or of
\* the commit; committed tells whether session.commit() ran and succeeded
insert_into_db(bars, view, company_id, df, dbOk) ==
    LET existing  == get_existing_dates(bars, company_id)
        to_insert == ToInsert(existing, df)
    IN  IF ~dbOk \/ (to_insert # <<>> /\ CommitRejected(bars, view, company_id, to_insert))
        THEN [raised |-> TRUE, inserted |-> 0, committed |-> FALSE, bars |-> bars]
        ELSE [raised |-> FALSE, inserted |-> InsertedCount(existing, df),
              committed |-> to_insert # <<>>,
              bars |-> AddBars(bars, company_id, df, to_insert)]

\* --------------------------------------------------- fix_zero_volume_nse.py
\* bulk snapshot outcomes: kind "ok" carries the map of build_symbol_volume_map,
\* "unavailable" is the HTTP error of a non-trading day, "error" a broken file
KeyA == <<"A">>
KeyB == <<"B">>
Snap(kind, map) == [kind |-> kind, map |-> map]
BhavDates == 1..4
NoBhav == [d \in BhavDates |-> Snap("unavailable", EmptyFn)]
BhavWorlds ==
    { [d \in BhavDates |-> Snap("ok", (KeyA :> 70) @@ (KeyB :> 80))],
      [d \in BhavDates |-> IF d = 2 THEN Snap("unavailable", EmptyFn)
                           ELSE Snap("ok", (KeyA :> 70))],
      [d \in BhavDates |-> IF d = 2 THEN Snap("ok", (KeyB :> 0))
                           ELSE Snap("error", EmptyFn)] }

\* ascending list of the elements of a set of dates (ORDER BY trade_date)
RECURSIVE SortedSeq(_)
SortedSeq(S) ==
    IF S = {} THEN <<>>
    ELSE LET m == CHOOSE x \in S : \A y \in S : x <= y
         IN  <<m>> \o SortedSeq(S \ {m})

\* get_zero_volume_dates without its WHERE clause: every stored trade date
get_zero_volume_dates_alldates(bars) == SortedSeq({k[2] : k \in DOMAIN bars})

\* get_zero_volume_dates: SELECT DISTINCT trade_date WHERE volume = 0 ORDER BY trade_date
get_zero_volume_dates(bars) ==
    SortedSeq({k[2] : k \in {kk \in DOMAIN bars : bars[kk].volume = {0}}})

\* the SELECT of update_volumes_for_date with the volume filter dropped
ZeroVolumeRows_anyvolume(bars, comps, dt) ==
    {k \in DOMAIN bars : k[2] = dt /\ k[1] \in DOMAIN comps}

\* the SELECT of update_volumes_for_date with the date filter dropped
ZeroVolumeRows_anydate(bars, comps, dt) ==
    {k \in DOMAIN bars : bars[k].volume = {0} /\ k[1] \in DOMAIN comps}

\* the SELECT of update_volumes_for_date: bars of dt with volume 0, joined to companies
ZeroVolumeRows(bars, comps, dt) ==
    {k \in DOMAIN bars : k[2] = dt /\ bars[k].volume = {0} /\ k[1] \in DOMAIN comps}

\* the two lookups of update_volumes_for_date; {} when both miss
BhavLookup(bhav_map, sym) ==
    LET base == Upper(SplitDotHead(sym))
        alt  == ReplaceDotNS(Upper(sym))
    IN  IF base \in DOMAIN bhav_map THEN {bhav_map[base]}
        ELSE IF alt \in DOMAIN bhav_map THEN {bhav_map[alt]}
        ELSE {}

\* the rows of dt for which an UPDATE is issued
VolumeHits(bars, comps, dt, bhav_map) ==
    {k \in ZeroVolumeRows(bars, comps, dt) : BhavLookup(bhav_map, comps[k[1]].symbol) # {}}

\* UPDATE price_history SET volume = :v WHERE id = :id, for the rows in hits
ApplyVolumes(bars, comps, hits, bhav_map) ==
    [k \in DOMAIN bars |->
        IF k \in hits
        THEN [bars[k] EXCEPT !.volume = BhavLookup(bhav_map, comps[k[1]].symbol)]
        ELSE bars[k]]

\* updated_rows of update_volumes_for_date
UpdatedRows(comps, hits, dt, bhav_map) ==
    {[key |-> k, symbol |-> comps[k[1]].symbol, trade_date |-> dt,
      new_volume |-> BhavLookup(bhav_map, comps[k[1]].symbol)] : k \in hits}

\* what the try block of run_fix raises before update_volumes_for_date is
\* called: download_bhavzip retries the HTTPError of a missing snapshot and
\* ends in tenacity's RetryError; parsing raises RuntimeError
SnapshotRaises(kind) ==
    CASE kind = "unavailable" -> "RetryError"
      [] kind = "error"       -> "RuntimeError"
      [] OTHER                -> "none"

\* run_fix with only its "except requests.exceptions.HTTPError" clause
run_fix_handler_httponly(e) ==
    IF e = "HTTPError" THEN "warning" ELSE "propagates"

\* run_fix without the try block around the work of one date
run_fix_handler_notry(e) == "propagates"

\* the except clauses of run_fix: which one handles exception e
run_fix_handler(e) ==
    IF e = "HTTPError" THEN "warning" ELSE "exception"

NoVol == [seq |-> 0, dt |-> 0, map |-> EmptyFn, before |-> EmptyFn, after |-> EmptyFn,
          comps |-> EmptyFn]

\* -------------------------------------------------- fetch_company_metadata.py
MetaFields == {"name", "sector", "industry", "isin", "listing_date"}

EmptyStr == <<>>
Spaces == <<" ", " ">>
Acme  == <<"A", "c", "m", "e">>
Other == <<"O", "t", "h", "e", "r">>
Tech  == <<"T", "e", "c", "h">>
Bank  == <<"B", "a", "n", "k">>
Soft  == <<"S", "o", "f", "t">>
Isin1 == <<"I", "N", "E", "1">>
Isin2 == <<"I", "N", "E", "2">>
Date1 == <<"2", "0", "0", "1">>
Date2 == <<"2", "0", "0", "2">>
ZeroDate == <<"0", "0", "0", "0", "-", "0", "0", "-", "0", "0">>

\* a metadata dict; a key that is not set reads as None through dict.get
Info(n, s, i, c, l) ==
    [k \in MetaFields |->
        CASE k = "name" -> n [] k = "sector" -> s [] k = "industry" -> i
          [] k = "isin" -> c [] OTHER -> l]
NoInfo == Info(None, None, None, None, None)

\* answers of the two metadata sources for one symbol: yf.ok = FALSE is the
\* exception safe_get_ticker_info swallows; mc.kind is "ok", "no_url",
\* "search_failed" or "scrape_failed"
Source(yfOk, yfInfo, mcKind, mcInfo) ==
    [yf |-> [ok |-> yfOk, info |-> yfInfo], mc |-> [kind |-> mcKind, info |-> mcInfo]]

MetaWorlds ==
    { [s \in Symbols |->
         IF s = SymA THEN Source(TRUE, Info(Acme, Tech, Soft, Isin1, None), "ok", NoInfo)
         ELSE IF s = SymB THEN Source(TRUE, Info(Other, None, EmptyStr, None, None),
                                      "ok", Info(Acme, Bank, Soft, Isin2, Date1))
         ELSE Source(TRUE, Info(Other, Bank, Soft, Isin1, None), "ok", NoInfo)],
      [s \in Symbols |->
         IF s = SymA THEN Source(TRUE, Info(Other, None, None, None, None),
                                 "ok", Info(Other, Bank, Tech, Isin2, Date1))
         ELSE IF s = SymB THEN Source(FALSE, NoInfo, "search_failed", NoInfo)
         ELSE Source(FALSE, NoInfo, "ok", Info(Spaces, Tech, EmptyStr, None, Date2))],
      [s \in Symbols |->
         IF s = SymA THEN Source(TRUE, Info(Spaces, Tech, None, None, None),
                                 "scrape_failed", NoInfo)
         ELSE IF s = SymB THEN Source(TRUE, Info(Acme, Tech, None, Isin2, None), "no_url", NoInfo)
         ELSE Source(TRUE, Info(None, None, Soft, None, None),
                     "ok", Info(Acme, None, Bank, Isin2, Date2))] }

\* merge_metadata: only a None or blank field of current takes new's value,
\* and only if that value is truthy
merge_metadata(current, new) ==
    [k \in MetaFields |->
        IF (current[k] = None \/ IsBlankStr(current[k])) /\ Truthy(new[k])
        THEN new[k] ELSE current[k]]

\* safe_get_ticker_info: the dict of the primary source, {} when it raised
PrimaryInfo(src) == IF src.yf.ok THEN src.yf.info ELSE NoInfo

\* what moneycontrol_search and moneycontrol_scrape_profile hold for the symbol
FallbackInfo(src) == IF src.mc.kind = "ok" THEN src.mc.info ELSE NoInfo

\* process_single consulting the fallback source for every symbol
NeedFallback_always(info) == TRUE

\* process_single: the fallback source is consulted
NeedFallback(info) ==
    ~Truthy(info["name"]) \/ ~Truthy(info["sector"]) \/ ~Truthy(info["industry"])

\* process_single without the try around the fallback source: its failure
\* leaves process_single before any update is built
process_single_updates_notry(src) ==
    LET info0 == IF src.yf.ok THEN src.yf.info ELSE NoInfo
        info  == IF NeedFallback(info0) /\ src.mc.kind = "ok"
                 THEN merge_metadata(info0, src.mc.info) ELSE info0
    IN  IF NeedFallback(info0) /\ src.mc.kind \in {"search_failed", "scrape_failed"}
        THEN EmptyFn
        ELSE [k \in {f \in MetaFields : info[f] # None /\ info[f] # EmptyStr} |-> info[k]]

\* process_single: info after both sources, then the update dict without
\* None and "" values
process_single_updates(src) ==
    LET info0 == IF src.yf.ok THEN src.yf.info ELSE NoInfo
        info  == IF NeedFallback(info0) /\ src.mc.kind = "ok"
                 THEN merge_metadata(info0, src.mc.info) ELSE info0
    IN  [k \in {f \in MetaFields : info[f] # None /\ info[f] # EmptyStr} |-> info[k]]

\* the column test of update_company_in_db: cur is None or a blank string
IsBlankColumn(cur) == cur = None \/ IsBlankStr(cur)

\* update_company_in_db setting every offered column
SetColumns_always(row, updates) ==
    [k \in DOMAIN row |-> IF k \in DOMAIN updates THEN updates[k] ELSE row[k]]

\* the setattr loop of update_company_in_db leaving after the first column it sets
SetColumns_first(row, updates) ==
    LET open == {k \in DOMAIN row :
                    k \in DOMAIN updates /\ updates[k] # None /\ IsBlankColumn(row[k])
                    /\ updates[k] # row[k]}
    IN  [k \in DOMAIN row |->
            IF open # {} /\ k = (CHOOSE f \in open : TRUE) THEN updates[k] ELSE row[k]]

\* the setattr loop of update_company_in_db
SetColumns(row, updates) ==
    [k \in DOMAIN row |->
        IF k \in DOMAIN updates /\ updates[k] # None /\ IsBlankColumn(row[k])
        THEN updates[k] ELSE row[k]]

\* companies.isin is unique (NULL excepted)
IsinTaken(comps, company_id, row) ==
    row.isin # None /\ \E o \in DOMAIN comps \ {company_id} : comps[o].isin = row.isin

\* update_company_in_db: the companies table afterwards
update_company_in_db(comps, company_id, updates, dbOk) ==
    IF DOMAIN updates = {} \/ company_id \notin DOMAIN comps THEN comps
    ELSE LET row == SetColumns(comps[company_id], updates)
         IN  IF row = comps[company_id] THEN comps
             ELSE IF ~dbOk \/ IsinTaken(comps, company_id, row) THEN comps
             ELSE [comps EXCEPT ![company_id] = row]

NoOffer == [seq |-> 0, company_id |-> 0, updates |-> EmptyFn, before |-> NoInfo,
            primary |-> NoInfo, fallback |-> NoInfo, mcCalled |-> FALSE]

\* ------------------------------------------------- fill_listing_date_nse.py
\* str.strip()
RECURSIVE StripLeft(_)
StripLeft(s) == IF s # <<>> /\ Head(s) = " " THEN StripLeft(Tail(s)) ELSE s
RECURSIVE StripRight(_)
StripRight(s) == IF s # <<>> /\ s[Len(s)] = " " THEN StripRight(SubSeq(s, 1, Len(s) - 1)) ELSE s
Strip(s) == StripRight(StripLeft(s))

\* normalize_symbol
normalize_symbol(sym) == SplitDotHead(Strip(Upper(sym)))

\* ----------------------------------------------------------- read_universe
\* lines of a universe file (the newline, which strip() removes, left out):
\* empty, blank, two tickers, a comment, an indented comment
UniverseLines ==
    { <<>>, <<" ">>, <<"A", ".", "N", "S">>, <<" ", "b", ".", "N", "S", " ">>,
      <<"#", "x">>, <<" ", "#", "x">> }

\* the files of at most MaxLines lines
UniverseFiles == UNION {[1..n -> UniverseLines] : n \in 1..MaxLines}

\* l.strip() and not l.startswith("#")
KeepsLine(l) == Strip(l) # <<>> /\ ~(l # <<>> /\ Head(l) = "#")

\* read_universe on an existing file
read_universe(lines) ==
    LET kept == SelectSeq(lines, KeepsLine)
    IN  [i \in 1..Len(kept) |-> Strip(kept[i])]

\* EQUITY_L.csv: ok = FALSE is a failed download or a changed format
FillWorlds ==
    { [ok |-> TRUE, map |-> (KeyA :> Date2)],
      [ok |-> TRUE, map |-> (KeyA :> Date1) @@ (KeyB :> Date2)],
      [ok |-> FALSE, map |-> EmptyFn] }

\* run_fill: "listing date already present"
HasListingDate(ld) == ~(ld = None \/ ld = EmptyStr \/ ld = ZeroDate)

\* the companies run_fill updates
FillTargets(comps, nse_map) ==
    {id \in DOMAIN comps : ~HasListingDate(comps[id].listing_date)
                           /\ normalize_symbol(comps[id].symbol) \in DOMAIN nse_map}

\* run_fill: the companies table after the final commit
run_fill(comps, world, dbOk) ==
    IF ~world.ok \/ ~dbOk THEN comps
    ELSE [id \in DOMAIN comps |->
            IF id \in FillTargets(comps, world.map)
            THEN [comps[id] EXCEPT !.listing_date = world.map[normalize_symbol(comps[id].symbol)]]
            ELSE comps[id]]

\* -------------------------------------------------------- tenacity retries
\* stop_after_attempt(5) of every retry decorator
STOP_AFTER_ATTEMPT == 5

\* what one attempt of a decorated function does: it returns ("ok"), it raises
\* a requests.exceptions.RequestException ("transient": time-out, connection
\* error, HTTP error status) or it raises another exception ("other": a
\* response that cannot be parsed)
Outcomes == {"ok", "transient", "other"}

\* the three retry decorators: wait_exponential(multiplier, min, max) and the
\* exception classes of retry_if_exception_type
DownloadYfPolicy ==
    [fn |-> "download_yf", multiplier |-> 1, min |-> 2, max |-> 30,
     retried |-> {"transient", "other"}]
MetadataPolicy ==
    [fn |-> "moneycontrol", multiplier |-> 1, min |-> 1, max |-> 10,
     retried |-> {"transient"}]
BhavPolicy ==
    [fn |-> "download_bhavzip", multiplier |-> 1, min |-> 1, max |-> 10,
     retried |-> {"transient"}]
Policies == {DownloadYfPolicy, MetadataPolicy, BhavPolicy}

Max(a, b) == IF a > b THEN a ELSE b

RECURSIVE Pow2(_)
Pow2(n) == IF n = 0 THEN 1 ELSE 2 * Pow2(n - 1)

\* wait_exponential without its lower clamp
wait_exponential_nomin(policy, attempt_number) ==
    Min(policy.multiplier * Pow2(attempt_number - 1), policy.max)

\* wait_exponential: the seconds slept after failed attempt attempt_number
wait_exponential(policy, attempt_number) ==
    Max(Max(0, policy.min),
        Min(policy.multiplier * Pow2(attempt_number - 1), policy.max))

\* retry_if_exception_type: is a failure of this kind retried
ShouldRetry(policy, outcome) == outcome \in policy.retried

\* stop_after_attempt
ShouldStop(attempt_number) == attempt_number >= STOP_AFTER_ATTEMPT

\* ------------------------------------------------------------------- state
VARIABLES
    companies,      \* committed rows of table companies: id -> row
    price_history,  \* committed rows of table price_history: <<company_id, trade_date>> -> bar
    etl_runs,       \* committed rows of table etl_runs, in insertion order
    nextId,         \* AUTO_INCREMENT of companies.id
    archive,        \* parquet files written: <<tier, symbol>>
    pc,             \* position of the running pipeline, "idle" between invocations
    runNo,          \* invocations started so far
    pending,        \* companies flushed in the price session and not yet committed
    sessionOk,      \* price session: FALSE after a failed flush() until rollback()
    tickers,        \* main: the universe read
    mapping,        \* main: symbol -> company id
    upstream,       \* what the price source returns in this invocation
    batchStart,     \* main: index of the first ticker of the current batch
    symIdx,         \* process_batch: index of the ticker being processed
    total_inserted, \* process_batch: rows inserted in this batch
    total_rows,     \* main: rows inserted in this invocation
    exc,            \* the exception caught by main's handler
    log,            \* logger records of the running invocation
    run,            \* what this price invocation did so far
    prev,           \* what the previous price invocation did
    lastInsert,     \* the latest call of insert_into_db
    faults,         \* injected failures so far
    volWorld,       \* run_fix: what the bulk source answers for each date
    volDates,       \* run_fix: zero_dates
    volIdx,         \* run_fix: position in zero_dates
    volPending,     \* run_fix: volume updates executed in session_db and not committed
    report,         \* run_fix: report entries
    lastVol,        \* the latest call of update_volumes_for_date
    metaWorld,      \* metadata run: what the two sources answer for each symbol
    records,        \* metadata main: ids read by read_symbols_from_db
    metaIdx,        \* metadata main: position in records
    lastOffer,      \* the latest call of update_company_in_db
    limits,         \* invocations allowed: runs in all, price of the price pipeline
    mIn,            \* merge_metadata called on its own: the arguments
    mOut,           \* merge_metadata called on its own: the result
    rPolicy,        \* a retried call on its own: the decorator of the function
    rOutcomes,      \* a retried call on its own: what attempt k would do
    rAttempt,       \* a retried call on its own: attempts made so far
    rWaits,         \* a retried call on its own: the waits slept so far
    rRaised,        \* a retried call on its own: "none" or what the call raised
    cIn,            \* validate_ohlcv called on its own: the raw frame
    cOut,           \* validate_ohlcv called on its own: the result
    cAgain,         \* validate_ohlcv applied to its own result
    procs,          \* two price invocations at once: the locals of each
    dupBars,        \* rows of price_history beyond the first of their (company_id, trade_date)
    uLines,         \* read_universe called on its own: the lines of the file
    uOut,           \* read_universe called on its own: the list returned
    rerunWorld,     \* metadata runs repeated: what the two sources answer in every run
    ePayload        \* ensure_companies called on its own: the list passed to the latest call

storeVars == <<companies, price_history, etl_runs, nextId, archive>>
priceVars == <<pending, sessionOk, tickers, mapping, upstream, batchStart, symIdx,
               total_inserted, total_rows, exc, log, run, prev, lastInsert>>
volVars == <<volWorld, volDates, volIdx, volPending, report, lastVol>>
metaVars == <<metaWorld, records, metaIdx, lastOffer>>
mergeVars == <<mIn, mOut>>
retryVars == <<rPolicy, rOutcomes, rAttempt, rWaits, rRaised>>
cleanVars == <<cIn, cOut, cAgain>>
concVars == <<procs, dupBars>>
readVars == <<uLines, uOut>>
rerunVars == <<rerunWorld>>
ensureVars == <<ePayload>>
pureVars == <<mergeVars, retryVars, cleanVars, concVars, readVars, rerunVars, ensureVars>>
vars == <<storeVars, priceVars, volVars, metaVars, pureVars, pc, runNo, faults, limits>>

NoRun == [n |-> 0, universe |-> <<>>, upstream |-> EmptyFn, startBars |-> EmptyFn,
          visited |-> {}, fetched |-> {}, fetchFail |-> {}, symExc |-> {},
          insFail |-> {}, attempts |-> EmptyFn, committed |-> 0,
          status |-> "none", rows_processed |-> 0, logDown |-> FALSE]

NoInsert == [seq |-> 0, idx |-> 0, company_id |-> 0, existing |-> {}, df |-> FEmpty,
             before |-> EmptyFn, after |-> EmptyFn, raised |-> FALSE, inserted |-> 0]

\* everything but the run limits and the arguments of a lone merge_metadata call
InitLocals ==
    /\ etl_runs = <<>>
    /\ archive = {}
    /\ runNo = 0
    /\ pending = EmptyFn
    /\ sessionOk = TRUE
    /\ tickers = <<>>
    /\ mapping = EmptyFn
    /\ upstream = [s \in Symbols |-> FEmpty]
    /\ batchStart = 1
    /\ symIdx = 1
    /\ total_inserted = 0
    /\ total_rows = 0
    /\ exc = "none"
    /\ log = {}
    /\ run = NoRun
    /\ prev = NoRun
    /\ lastInsert = NoInsert
    /\ faults = 0
    /\ volWorld = NoBhav
    /\ volDates = <<>>
    /\ volIdx = 1
    /\ volPending = EmptyFn
    /\ report = {}
    /\ lastVol = NoVol
    /\ metaWorld = [s \in Symbols |-> Source(FALSE, NoInfo, "no_url", NoInfo)]
    /\ records = <<>>
    /\ metaIdx = 1
    /\ lastOffer = NoOffer

\* the two invocations of the price pipeline
Invocations == {1, 2}

NoProc == [universe |-> <<>>, upstream |-> [s \in Symbols |-> FEmpty], mapping |-> EmptyFn,
           pc |-> "done", idx |-> 1, existing |-> {},
           txn |-> [open |-> FALSE, bars |-> EmptyFn], log |-> {}, total_inserted |-> 0]

\* no concurrent invocations
ConcIdle ==
    /\ procs = [p \in Invocations |-> NoProc]
    /\ dupBars = {}

\* no read_universe call on its own
ReadIdle ==
    /\ uLines = <<>>
    /\ uOut = <<>>

\* no repeated metadata runs
RerunIdle == rerunWorld = [s \in Symbols |-> Source(FALSE, NoInfo, "no_url", NoInfo)]

\* no ensure_companies call on its own
EnsureIdle == ePayload = <<>>

\* no row in companies and price_history
EmptyTables ==
    /\ companies = EmptyFn
    /\ price_history = EmptyFn
    /\ nextId = 1

\* an empty store and no invocation running
InitStore ==
    /\ EmptyTables
    /\ InitLocals
    /\ ConcIdle
    /\ ReadIdle
    /\ RerunIdle
    /\ EnsureIdle

\* no merge_metadata call on its own
MergeIdle ==
    /\ mIn = [current |-> NoInfo, new |-> NoInfo]
    /\ mOut = NoInfo

\* no retried call on its own
RetryIdle ==
    /\ rPolicy = DownloadYfPolicy
    /\ rOutcomes = [k \in 1..STOP_AFTER_ATTEMPT |-> "ok"]
    /\ rAttempt = 0
    /\ rWaits = <<>>
    /\ rRaised = "none"

NoClean == [raised |-> FALSE, df |-> FEmpty]

\* no validate_ohlcv call on its own
CleanIdle ==
    /\ cIn = FEmpty
    /\ cOut = NoClean
    /\ cAgain = NoClean

Init ==
    /\ InitStore
    /\ pc = "idle"
    /\ limits = [runs |-> MaxRuns, price |-> MaxRuns]
    /\ MergeIdle
    /\ RetryIdle
    /\ CleanIdle

\* an injected failure is counted; at most MaxFaults are injected
Fault(failed) ==
    /\ failed => faults < MaxFaults
    /\ faults' = IF failed THEN faults + 1 ELSE faults

\* ------------------------------------------------- fetch_price_history.main
\* ETLRun row written by log_etl_run
RunLog(name, status, rows, err) ==
    [pipeline_name |-> name, status |-> status, rows_processed |-> rows,
     error_message |-> err, run |-> runNo]

\* the exception is swallowed inside the loop and main goes on to its RunLog
Raise_tolog(e) ==
    /\ exc' = e
    /\ pc' = "log"

\* an exception reaches "except Exception" of main
Raise(e) ==
    /\ exc' = e
    /\ pc' = "except"

\* main up to the batch loop: read_universe and ensure_companies. db says how
\* the storage answers ensure_companies: "ok", "select_failed" (a SELECT
\* raises) or "flush_failed" (the flush of a new Company raises, which leaves
\* the session's transaction inactive until rollback() is called)
MainStart(univ, ups, db) ==
    /\ limits.price > 0
    /\ limits' = [limits EXCEPT !.price = @ - 1]
    /\ UNCHANGED pureVars
    /\ Fault(univ # Missing /\ db # "ok")
    /\ univ = Missing => db = "ok"
    /\ UNCHANGED <<volVars, metaVars>>
    /\ pc = "idle"
    /\ runNo < limits.runs
    /\ runNo' = runNo + 1
    /\ upstream' = ups
    /\ log' = {}
    /\ lastInsert' = lastInsert
    /\ prev' = prev
    /\ UNCHANGED <<companies, price_history, etl_runs, archive>>
    /\ batchStart' = 1
    /\ symIdx' = 1
    /\ total_inserted' = 0
    /\ total_rows' = 0
    /\ LET started == [NoRun EXCEPT !.n = runNo + 1, !.universe = univ,
                                    !.upstream = ups, !.startBars = price_history]
       IN  IF univ = Missing
           THEN /\ Raise("FileNotFoundError")
                /\ run' = started
                /\ UNCHANGED <<pending, sessionOk, tickers, mapping, nextId>>
           ELSE LET payload == [i \in 1..Len(univ) |->
                                   [symbol |-> univ[i], exchange |-> "NSE", name |-> None]]
                    ens == ensure_companies(companies, nextId, payload)
                IN  IF db # "ok"
                    THEN /\ db = "flush_failed" => ens.created # EmptyFn
                         /\ Raise("SQLAlchemyError")
                         /\ sessionOk' = (db # "flush_failed")
                         /\ run' = started
                         /\ tickers' = univ
                         /\ UNCHANGED <<pending, mapping, nextId>>
                    ELSE /\ sessionOk' = TRUE
                         /\ tickers' = univ
                         /\ mapping' = ens.mapping
                         /\ pending' = ens.created
                         /\ nextId' = ens.nextId
                         /\ run' = [started EXCEPT
                                       !.attempts = [i \in 1..Len(univ) |-> 0]]
                         /\ exc' = "none"
                         /\ pc' = IF univ = <<>> THEN "log" ELSE "batch"

\* chunk_list yielding one ticker of every BATCH_SIZE
BatchEnd_first == batchStart

\* last index of the current batch (chunk_list)
BatchEnd == Min(batchStart + BATCH_SIZE - 1, Len(tickers))

\* process_batch, first statement: download_yf with its retries
ProcessBatchFetch(fetchOk) ==
    /\ UNCHANGED <<pureVars, limits>>
    /\ Fault(~fetchOk)
    /\ UNCHANGED <<volVars, metaVars>>
    /\ pc = "batch"
    /\ UNCHANGED <<storeVars, runNo, pending, sessionOk, tickers, mapping, upstream,
                   batchStart, total_rows, prev, lastInsert, log>>
    /\ IF fetchOk
       THEN /\ symIdx' = batchStart
            /\ total_inserted' = 0
            /\ run' = [run EXCEPT !.fetched = @ \cup {batchStart}]
            /\ pc' = "symbol"
            /\ exc' = exc
       ELSE /\ run' = [run EXCEPT !.fetchFail = @ \cup {batchStart}]
            /\ Raise("RetryError")
            /\ UNCHANGED <<symIdx, total_inserted>>

\* the loop of process_batch moves on; after the last ticker process_batch
\* returns and main adds its result to total_rows
Advance(ti) ==
    IF symIdx < BatchEnd
    THEN /\ symIdx' = symIdx + 1
         /\ total_inserted' = ti
         /\ pc' = "symbol"
         /\ UNCHANGED <<batchStart, total_rows>>
    ELSE /\ total_rows' = total_rows + ti
         /\ total_inserted' = ti
         /\ batchStart' = batchStart + BATCH_SIZE
         /\ symIdx' = symIdx
         /\ pc' = IF batchStart + BATCH_SIZE <= Len(tickers) THEN "batch" ELSE "log"

\* process_batch, one iteration of "for t in tickers"
ProcessSymbol(arch, dbOk) ==
    /\ UNCHANGED <<pureVars, limits>>
    /\ UNCHANGED <<volVars, metaVars>>
    /\ pc = "symbol"
    /\ UNCHANGED <<etl_runs, nextId, runNo, sessionOk, tickers, mapping, upstream, prev>>
    /\ LET t   == tickers[symIdx]
           df  == upstream[t]
           v   == validate_ohlcv(df)
           cid == IF t \in DOMAIN mapping THEN mapping[t] ELSE 0
           view == pending @@ companies
           ins == insert_into_db(price_history, view, cid, v.df, dbOk)
           seen == [run EXCEPT !.visited = @ \cup {symIdx}]
           quiet == arch = "ok" /\ dbOk
       IN  IF df.rows = <<>> \/ df.cols = {}
           THEN /\ quiet /\ faults' = faults
                /\ log' = log \cup {[ev |-> "no_data", idx |-> symIdx]}
                /\ run' = seen
                /\ Advance(total_inserted)
                /\ UNCHANGED <<companies, price_history, archive, pending, exc, lastInsert>>
           ELSE IF v.raised
           THEN /\ quiet /\ faults' = faults
                /\ Raise("KeyError")
                /\ run' = [seen EXCEPT !.symExc = @ \cup {symIdx}]
                /\ UNCHANGED <<companies, price_history, archive, pending, log, lastInsert,
                               batchStart, symIdx, total_inserted, total_rows>>
           ELSE IF v.df.rows = <<>>
           THEN /\ quiet /\ faults' = faults
                /\ log' = log \cup {[ev |-> "empty_after_validation", idx |-> symIdx]}
                /\ run' = seen
                /\ Advance(total_inserted)
                /\ UNCHANGED <<companies, price_history, archive, pending, exc, lastInsert>>
           ELSE IF arch # "ok"
           THEN /\ dbOk /\ Fault(TRUE)
                /\ Raise("OSError")
                /\ archive' = IF arch = "silver_fail"
                              THEN archive \cup {<<"bronze", t>>} ELSE archive
                /\ run' = [seen EXCEPT !.symExc = @ \cup {symIdx}]
                /\ UNCHANGED <<companies, price_history, pending, log, lastInsert,
                               batchStart, symIdx, total_inserted, total_rows>>
           ELSE IF cid = 0
           THEN /\ dbOk /\ faults' = faults
                /\ archive' = archive \cup {<<"bronze", t>>, <<"silver", t>>}
                /\ log' = log \cup {[ev |-> "no_company_id", idx |-> symIdx]}
                /\ run' = seen
                /\ Advance(total_inserted)
                /\ UNCHANGED <<companies, price_history, pending, exc, lastInsert>>
           ELSE /\ Fault(~dbOk)
                /\ archive' = archive \cup {<<"bronze", t>>, <<"silver", t>>}
                /\ exc' = exc
                /\ price_history' = ins.bars
                /\ lastInsert' =
                      [seq |-> lastInsert.seq + 1, idx |-> symIdx, company_id |-> cid,
                       existing |-> get_existing_dates(price_history, cid), df |-> v.df,
                       before |-> price_history, after |-> ins.bars,
                       raised |-> ins.raised, inserted |-> ins.inserted]
                /\ IF ins.raised
                   THEN \* except SQLAlchemyError: session.rollback(), logger.exception
                        /\ pending' = EmptyFn
                        /\ companies' = companies
                        /\ log' = log \cup {[ev |-> "db_insert_error", idx |-> symIdx]}
                        /\ run' = [seen EXCEPT !.insFail = @ \cup {symIdx},
                                               !.attempts[symIdx] = @ + 1]
                        /\ Advance(total_inserted)
                   ELSE /\ pending' = IF ins.committed THEN EmptyFn ELSE pending
                        /\ companies' = IF ins.committed THEN view ELSE companies
                        /\ log' = log \cup {[ev |-> "inserted", idx |-> symIdx]}
                        /\ run' = [seen EXCEPT !.attempts[symIdx] = @ + 1,
                                               !.committed = @ + ins.inserted]
                        /\ Advance(total_inserted + ins.inserted)

\* main with a statement after the SUCCESS RunLog that raises inside the try
AfterSuccessLog_raises == "except"

\* main after log_etl_run(status="SUCCESS"): only the finally clause is left
AfterSuccessLog == "finally"

\* main: log_etl_run(status="SUCCESS", rows_processed=total_rows) after the loop
LogSuccess(dbOk) ==
    /\ UNCHANGED <<pureVars, limits>>
    /\ Fault(~dbOk)
    /\ UNCHANGED <<volVars, metaVars>>
    /\ pc = "log"
    /\ UNCHANGED <<price_history, nextId, archive, runNo, sessionOk, tickers, mapping, upstream,
                   batchStart, symIdx, total_inserted, total_rows, prev, lastInsert, log>>
    /\ IF dbOk
       THEN /\ etl_runs' = Append(etl_runs,
                              RunLog("fetch_price_history", "SUCCESS", total_rows, "None"))
            /\ companies' = pending @@ companies
            /\ pending' = EmptyFn
            /\ run' = [run EXCEPT !.status = "SUCCESS", !.rows_processed = total_rows]
            /\ exc' = exc
            /\ pc' = AfterSuccessLog
       ELSE /\ Raise("SQLAlchemyError")
            /\ UNCHANGED <<etl_runs, companies, pending, run>>

\* main: the handler of "except Exception", writing the FAILED record; a
\* session left inactive by a failed flush refuses the commit
\* (PendingRollbackError), and the inner handler swallows every failure
LogFailed(dbOk) ==
    /\ UNCHANGED <<pureVars, limits>>
    /\ Fault(~dbOk)
    /\ ~sessionOk => dbOk
    /\ UNCHANGED <<volVars, metaVars>>
    /\ pc = "except"
    /\ UNCHANGED <<price_history, nextId, archive, runNo, sessionOk, tickers, mapping,
                   upstream, batchStart, symIdx, total_inserted, total_rows, prev,
                   lastInsert, exc>>
    /\ pc' = "finally"
    /\ IF dbOk /\ sessionOk
       THEN /\ etl_runs' = Append(etl_runs,
                              RunLog("fetch_price_history", "FAILED", 0, exc))
            /\ companies' = pending @@ companies
            /\ pending' = EmptyFn
            /\ run' = [run EXCEPT !.status = "FAILED", !.rows_processed = 0]
            /\ log' = log \cup {[ev |-> "etl_failed", idx |-> 0]}
       ELSE /\ log' = log \cup {[ev |-> "etl_failed", idx |-> 0],
                                [ev |-> "runlog_write_failed", idx |-> 0]}
            /\ run' = [run EXCEPT !.logDown = ~dbOk]
            /\ UNCHANGED <<etl_runs, companies, pending>>

\* what a later invocation can know of a finished one
Summary(r) ==
    [NoRun EXCEPT !.n = r.n, !.universe = r.universe, !.upstream = r.upstream,
                  !.status = r.status, !.insFail = r.insFail, !.committed = r.committed]

\* main: finally session.close(), and main returns; its locals are gone
MainClose ==
    /\ UNCHANGED <<pureVars, limits>>
    /\ UNCHANGED <<volVars, metaVars, faults>>
    /\ pc = "finally"
    /\ pc' = "idle"
    /\ pending' = EmptyFn
    /\ sessionOk' = TRUE
    /\ prev' = Summary(run)
    /\ run' = NoRun
    /\ lastInsert' = NoInsert
    /\ tickers' = <<>>
    /\ mapping' = EmptyFn
    /\ batchStart' = 1
    /\ symIdx' = 1
    /\ total_inserted' = 0
    /\ total_rows' = 0
    /\ exc' = "none"
    /\ log' = {}
    /\ upstream' = [s \in Symbols |-> FEmpty]
    /\ UNCHANGED <<storeVars, runNo>>

\* ------------------------------------------------------------ run_fix
\* price_history as session_db sees it: its own uncommitted updates applied
VolView ==
    [k \in DOMAIN price_history |->
        IF k \in DOMAIN volPending
        THEN [price_history[k] EXCEPT !.volume = volPending[k]]
        ELSE price_history[k]]

\* run_fix up to the loop: get_company_symbol_map and get_zero_volume_dates
VolStart(world) ==
    /\ UNCHANGED <<pureVars, limits>>
    /\ pc = "idle"
    /\ runNo < limits.runs
    /\ runNo' = runNo + 1
    /\ pc' = "vol"
    /\ volWorld' = world
    /\ volDates' = get_zero_volume_dates(price_history)
    /\ volIdx' = 1
    /\ volPending' = EmptyFn
    /\ report' = {}
    /\ lastVol' = NoVol
    /\ UNCHANGED <<storeVars, priceVars, metaVars, faults>>

\* run_fix: one iteration of "for dt in zero_dates"
VolDate(done, failed) ==
    /\ UNCHANGED <<pureVars, limits>>
    /\ pc = "vol"
    /\ volIdx <= Len(volDates)
    /\ volIdx' = volIdx + 1
    /\ UNCHANGED <<companies, etl_runs, nextId, archive, priceVars, metaVars, runNo,
                   volWorld, volDates>>
    /\ LET dt   == volDates[volIdx]
           snap == volWorld[dt]
           view == VolView
           hits == VolumeHits(view, companies, dt, snap.map)
       IN  IF snap.kind # "ok"
           THEN \* download or parsing raised: caught by run_fix, next date
                /\ ~failed /\ done = {} /\ faults' = faults
                /\ pc' = IF run_fix_handler(SnapshotRaises(snap.kind)) = "propagates"
                         THEN "idle" ELSE "vol"
                /\ UNCHANGED <<price_history, volPending, report, lastVol>>
           ELSE IF failed
           THEN \* an UPDATE raised after those of done were executed; no
                \* commit, no rollback, nothing reported
                /\ Fault(TRUE)
                /\ pc' = IF run_fix_handler("SQLAlchemyError") = "propagates"
                         THEN "idle" ELSE "vol"
                /\ done \subseteq hits /\ done # hits
                /\ volPending' = [k \in DOMAIN volPending \cup done |->
                                    IF k \in done
                                    THEN BhavLookup(snap.map, companies[k[1]].symbol)
                                    ELSE volPending[k]]
                /\ UNCHANGED <<price_history, report, lastVol>>
           ELSE \* update_volumes_for_date returns: commit, report.extend(updated)
                /\ done = hits /\ faults' = faults /\ pc' = pc
                /\ price_history' = ApplyVolumes(view, companies, hits, snap.map)
                /\ volPending' = EmptyFn
                /\ report' = report \cup UpdatedRows(companies, hits, dt, snap.map)
                /\ lastVol' = [seq |-> lastVol.seq + 1, dt |-> dt, map |-> snap.map,
                               before |-> view, comps |-> companies,
                               after |-> ApplyVolumes(view, companies, hits, snap.map)]

\* run_fix after the loop: the report is written, session_db.close()
VolFinish ==
    /\ UNCHANGED <<pureVars, limits>>
    /\ pc = "vol"
    /\ volIdx > Len(volDates)
    /\ pc' = "idle"
    /\ volPending' = EmptyFn
    /\ volDates' = <<>>
    /\ volIdx' = 1
    /\ report' = {}
    /\ lastVol' = NoVol
    /\ volWorld' = NoBhav
    /\ UNCHANGED <<storeVars, priceVars, metaVars, runNo, faults>>

\* the rows an UPDATE of the current iteration can address: those of its
\* date and those with volume 0
VolCandidates ==
    {k \in DOMAIN price_history :
        \/ price_history[k].volume = {0}
        \/ pc = "vol" /\ volIdx <= Len(volDates) /\ k[2] = volDates[volIdx]}

VolNext ==
    \/ \E world \in BhavWorlds : VolStart(world)
    \/ \E done \in SUBSET VolCandidates, failed \in BOOLEAN : VolDate(done, failed)
    \/ VolFinish

\* ------------------------------------------- fetch_company_metadata.main
\* main up to the loop: read_symbols_from_db
MetaStart(world) ==
    /\ UNCHANGED <<pureVars, limits>>
    /\ pc = "idle"
    /\ runNo < limits.runs
    /\ runNo' = runNo + 1
    /\ pc' = "meta"
    /\ metaWorld' = world
    /\ records' = SortedSeq(DOMAIN companies)
    /\ metaIdx' = 1
    /\ lastOffer' = NoOffer
    /\ UNCHANGED <<storeVars, priceVars, volVars, faults>>

\* main: one iteration of "for rec in symbols": process_single
MetaProcess(dbOk) ==
    /\ UNCHANGED <<pureVars, limits>>
    /\ pc = "meta"
    /\ metaIdx <= Len(records)
    /\ metaIdx' = metaIdx + 1
    /\ LET id      == records[metaIdx]
           updates == process_single_updates(metaWorld[companies[id].symbol])
           after   == update_company_in_db(companies, id, updates, dbOk)
       IN  /\ Fault(~dbOk)
           /\ ~dbOk => SetColumns(companies[id], updates) # companies[id]
           /\ companies' = after
           /\ lastOffer' = [seq |-> lastOffer.seq + 1, company_id |-> id,
                            updates |-> updates,
                            before |-> [k \in MetaFields |-> companies[id][k]],
                            primary |-> PrimaryInfo(metaWorld[companies[id].symbol]),
                            fallback |-> FallbackInfo(metaWorld[companies[id].symbol]),
                            mcCalled |-> NeedFallback(
                                PrimaryInfo(metaWorld[companies[id].symbol]))]
    /\ UNCHANGED <<price_history, etl_runs, nextId, archive, priceVars, volVars,
                   pc, runNo, metaWorld, records>>

\* main after the loop: session.close()
MetaFinish ==
    /\ UNCHANGED <<pureVars, limits>>
    /\ pc = "meta"
    /\ metaIdx > Len(records)
    /\ pc' = "idle"
    /\ records' = <<>>
    /\ metaIdx' = 1
    /\ lastOffer' = NoOffer
    /\ metaWorld' = [s \in Symbols |-> Source(FALSE, NoInfo, "no_url", NoInfo)]
    /\ UNCHANGED <<storeVars, priceVars, volVars, runNo, faults>>

\* fill_listing_date_nse.run_fill, one invocation
RunFill(world, dbOk) ==
    /\ UNCHANGED <<pureVars, limits>>
    /\ pc = "idle"
    /\ runNo < limits.runs
    /\ runNo' = runNo + 1
    /\ Fault(~dbOk)
    /\ ~dbOk => world.ok /\ FillTargets(companies, world.map) # {}
    /\ companies' = run_fill(companies, world, dbOk)
    /\ UNCHANGED <<price_history, etl_runs, nextId, archive, priceVars, volVars,
                   metaVars, pc>>

MetaNext ==
    \/ \E world \in MetaWorlds : MetaStart(world)
    \/ \E dbOk \in BOOLEAN : MetaProcess(dbOk)
    \/ MetaFinish

FillNext == \E world \in FillWorlds, dbOk \in BOOLEAN : RunFill(world, dbOk)

PriceNext ==
    \/ \E univ \in Universes, ups \in Upstreams,
          db \in {"ok", "select_failed", "flush_failed"} : MainStart(univ, ups, db)
    \/ \E fetchOk \in BOOLEAN : ProcessBatchFetch(fetchOk)
    \/ \E arch \in {"ok", "bronze_fail", "silver_fail"}, dbOk \in BOOLEAN : ProcessSymbol(arch, dbOk)
    \/ \E dbOk \in BOOLEAN : LogSuccess(dbOk)
    \/ \E dbOk \in BOOLEAN : LogFailed(dbOk)
    \/ MainClose

\* ------------------------------------------------ merge_metadata on its own
\* the values one field of a metadata dict can hold
CurrentVals == {None, EmptyStr, Spaces, Acme}
NewVals == {None, EmptyStr, Spaces, Other}

\* argument pairs: name and sector vary freely, the other three fields together
MergeInputs ==
    { [current |-> Info(cn, cs, co, co, co), new |-> Info(nn, ns, no, no, no)] :
        cn \in CurrentVals, cs \in CurrentVals, co \in CurrentVals,
        nn \in NewVals, ns \in NewVals \cup {Tech}, no \in NewVals }

InitMerge ==
    /\ InitStore
    /\ pc = "merge_call"
    /\ limits = [runs |-> 0, price |-> 0]
    /\ mIn \in MergeInputs
    /\ mOut = NoInfo
    /\ RetryIdle
    /\ CleanIdle

\* one call merge_metadata(current, new)
MergeCall ==
    /\ pc = "merge_call"
    /\ pc' = "merge_done"
    /\ mOut' = merge_metadata(mIn.current, mIn.new)
    /\ UNCHANGED <<storeVars, priceVars, volVars, metaVars, concVars, readVars, rerunVars, ensureVars, mIn, runNo, faults, limits,
                   retryVars, cleanVars>>

InitMeta ==
    /\ InitStore
    /\ pc = "idle"
    /\ limits = [runs |-> MaxMetaRuns, price |-> 1]
    /\ MergeIdle
    /\ RetryIdle
    /\ CleanIdle

\* ----------------------------------------------- a retried call on its own
InitRetry ==
    /\ InitStore
    /\ pc = "retry_call"
    /\ limits = [runs |-> 0, price |-> 0]
    /\ MergeIdle
    /\ CleanIdle
    /\ rPolicy \in Policies
    /\ rOutcomes \in [1..STOP_AFTER_ATTEMPT -> Outcomes]
    /\ rAttempt = 0
    /\ rWaits = <<>>
    /\ rRaised = "none"

\* one attempt of the decorated function: its result is returned, or its
\* exception is raised at once (not a retried class), or the call gives up
\* with tenacity's RetryError (no reraise=True in any decorator), or it will
\* sleep and try again
RetryAttempt ==
    /\ pc = "retry_call"
    /\ rAttempt' = rAttempt + 1
    /\ LET outcome == rOutcomes[rAttempt + 1]
       IN  IF outcome = "ok"
           THEN pc' = "retry_returned" /\ rRaised' = "none"
           ELSE IF ~ShouldRetry(rPolicy, outcome)
           THEN pc' = "retry_raised" /\ rRaised' = outcome
           ELSE IF ShouldStop(rAttempt + 1)
           THEN pc' = "retry_raised" /\ rRaised' = "RetryError"
           ELSE pc' = "retry_sleep" /\ rRaised' = "none"
    /\ UNCHANGED <<storeVars, priceVars, volVars, metaVars, concVars, readVars, rerunVars, ensureVars, mergeVars, cleanVars, runNo,
                   faults, limits, rPolicy, rOutcomes, rWaits>>

\* the sleep between two attempts
RetrySleep ==
    /\ pc = "retry_sleep"
    /\ pc' = "retry_call"
    /\ rWaits' = Append(rWaits, wait_exponential(rPolicy, rAttempt))
    /\ UNCHANGED <<storeVars, priceVars, volVars, metaVars, concVars, readVars, rerunVars, ensureVars, mergeVars, cleanVars, runNo,
                   faults, limits, rPolicy, rOutcomes, rAttempt, rRaised>>

NextRetry == RetryAttempt \/ RetrySleep

\* ------------------------------------------------ validate_ohlcv on its own
\* index labels of a raw frame: three dates, or a label that is no date
CleanDates == {{}, {1}, {2}, {3}}

\* rows of a raw frame: a clean row, a negative close, no open and no volume,
\* NaN only, a zero close without adjusted close
CleanRows ==
    UNION { { Row(d, {10}, {12}, {9}, {11}, {11}, {7}),
              Row(d, {10}, {12}, {9}, {0 - 5}, {11}, {7}),
              Row(d, {}, {12}, {9}, {12}, {12}, {}),
              Row(d, {}, {}, {}, {}, {}, {}),
              Row(d, {10}, {12}, {9}, {0}, {}, {0}) } : d \in CleanDates }

\* the column sets a provider response can have
CleanCols == {AllCols, AllCols \ {"Volume"}, AllCols \ {"Adj Close"}}

\* raw frames of at most maxRows rows, in any order of dates
CleanInputs(maxRows) ==
    { Frame(cols, rows) :
        cols \in CleanCols,
        rows \in UNION { [1..n -> CleanRows] : n \in 0..maxRows } }

InitClean ==
    /\ InitStore
    /\ pc = "clean_call"
    /\ limits = [runs |-> 0, price |-> 0]
    /\ MergeIdle
    /\ RetryIdle
    /\ cIn \in CleanInputs(MaxRows)
    /\ cOut = NoClean
    /\ cAgain = NoClean

\* one call validate_ohlcv(df)
CleanCall ==
    /\ pc = "clean_call"
    /\ cOut' = validate_ohlcv(cIn)
    /\ pc' = IF validate_ohlcv(cIn).raised THEN "clean_raised" ELSE "clean_again"
    /\ UNCHANGED <<storeVars, priceVars, volVars, metaVars, concVars, readVars, rerunVars, ensureVars, mergeVars, retryVars, runNo,
                   faults, limits, cIn, cAgain>>

\* validate_ohlcv called on the frame it returned
CleanAgain ==
    /\ pc = "clean_again"
    /\ cAgain' = validate_ohlcv(cOut.df)
    /\ pc' = "clean_done"
    /\ UNCHANGED <<storeVars, priceVars, volVars, metaVars, concVars, readVars, rerunVars, ensureVars, mergeVars, retryVars, runNo,
                   faults, limits, cIn, cOut>>

NextClean == CleanCall \/ CleanAgain

\* -------------------------------- two price invocations on the same store
ConcUniverses == {<<SymA, SymB>>, <<SymB, SymA>>, <<SymA>>}

ConcUpstreams ==
    { [s \in Symbols |-> FOld],
      [s \in Symbols |-> FNew],
      [s \in Symbols |-> IF s = SymA THEN FDup ELSE FOld] }

\* the companies an earlier run created and committed for SymA and SymB
SeedCompanies ==
    ensure_companies(EmptyFn, 1,
        <<[symbol |-> SymA, exchange |-> "NSE", name |-> None],
          [symbol |-> SymB, exchange |-> "NSE", name |-> None]>>)

\* the bars an earlier run committed for SymA from FOld
SeedBars ==
    LET df == validate_ohlcv(FOld).df
    IN  AddBars(EmptyFn, SeedCompanies.mapping[SymA], df, df.rows)

\* both invocations are past ensure_companies, which found every company
\* of their universe stored; each holds its own session
InitConc ==
    /\ InitLocals
    /\ MergeIdle
    /\ RetryIdle
    /\ CleanIdle
    /\ ReadIdle
    /\ RerunIdle
    /\ EnsureIdle
    /\ pc = "concurrent"
    /\ limits = [runs |-> 0, price |-> 0]
    /\ companies = SeedCompanies.created
    /\ nextId = SeedCompanies.nextId
    /\ price_history \in {EmptyFn, SeedBars}
    /\ dupBars = {}
    /\ \E us \in [Invocations -> ConcUniverses], ups \in [Invocations -> ConcUpstreams] :
          procs = [p \in Invocations |->
                      [NoProc EXCEPT !.universe = us[p], !.upstream = ups[p],
                                     !.mapping = [t \in Range(us[p]) |->
                                                     SeedCompanies.mapping[t]],
                                     !.pc = "fetch"]]

ConcUnchanged ==
    UNCHANGED <<companies, etl_runs, nextId, archive, priceVars, volVars, metaVars,
                mergeVars, retryVars, cleanVars, readVars, rerunVars, ensureVars, pc, runNo, faults, limits>>

\* process_batch of invocation p up to the SELECT of insert_into_db for its
\* next ticker; repeatable: the SELECT reads the snapshot of the session's
\* open transaction instead of the latest committed rows
ConcFetch(p, repeatable) ==
    /\ ConcUnchanged
    /\ procs[p].pc = "fetch"
    /\ repeatable => procs[p].txn.open
    /\ UNCHANGED <<price_history, dupBars>>
    /\ LET me == procs[p]
       IN  IF me.idx > Len(me.universe)
           THEN /\ ~repeatable
                /\ procs' = [procs EXCEPT ![p].pc = "done"]
           ELSE LET t     == me.universe[me.idx]
                    raw   == me.upstream[t]
                    clean == validate_ohlcv(raw)
                    seen  == IF repeatable THEN me.txn.bars ELSE price_history
                IN  IF raw.rows = <<>>
                    THEN /\ ~repeatable
                         /\ procs' = [procs EXCEPT
                               ![p].log = @ \cup {[ev |-> "no_data", idx |-> me.idx]},
                               ![p].idx = @ + 1]
                    ELSE IF clean.raised
                    THEN /\ ~repeatable
                         /\ procs' = [procs EXCEPT
                               ![p].log = @ \cup {[ev |-> "etl_failed", idx |-> me.idx]},
                               ![p].pc = "done"]
                    ELSE IF clean.df.rows = <<>>
                    THEN /\ ~repeatable
                         /\ procs' = [procs EXCEPT
                               ![p].log = @ \cup {[ev |-> "empty_after_validation",
                                                   idx |-> me.idx]},
                               ![p].idx = @ + 1]
                    ELSE procs' = [procs EXCEPT
                               ![p].existing = get_existing_dates(seen, me.mapping[t]),
                               ![p].txn = [open |-> TRUE, bars |-> seen],
                               ![p].pc = "insert"]

\* insert_into_db of invocation p from its SELECT on, and the handler of
\* process_batch: the rows are flushed and committed against the rows
\* committed by then
ConcInsert(p) ==
    /\ ConcUnchanged
    /\ procs[p].pc = "insert"
    /\ LET me        == procs[p]
           t         == me.universe[me.idx]
           df        == validate_ohlcv(me.upstream[t]).df
           to_insert == ToInsert(me.existing, df)
       IN  IF to_insert = <<>>
           THEN /\ procs' = [procs EXCEPT ![p].idx = @ + 1, ![p].pc = "fetch"]
                /\ UNCHANGED <<price_history, dupBars>>
           ELSE IF CommitRejected(price_history, companies, me.mapping[t], to_insert)
           THEN /\ procs' = [procs EXCEPT
                      ![p].log = @ \cup {[ev |-> "insert_failed", idx |-> me.idx]},
                      ![p].txn = [open |-> FALSE, bars |-> EmptyFn],
                      ![p].idx = @ + 1, ![p].pc = "fetch"]
                /\ UNCHANGED <<price_history, dupBars>>
           ELSE /\ price_history' = AddBars(price_history, me.mapping[t], df, to_insert)
                /\ dupBars' = dupBars \cup
                                StoredTwice(price_history, me.mapping[t], to_insert)
                /\ procs' = [procs EXCEPT
                      ![p].total_inserted = @ + InsertedCount(me.existing, df),
                      ![p].txn = [open |-> FALSE, bars |-> EmptyFn],
                      ![p].idx = @ + 1, ![p].pc = "fetch"]

NextConc ==
    \/ \E p \in Invocations, repeatable \in BOOLEAN : ConcFetch(p, repeatable)
    \/ \E p \in Invocations : ConcInsert(p)

\* ------------------------------------------------ read_universe on its own
InitRead ==
    /\ EmptyTables
    /\ InitLocals
    /\ MergeIdle
    /\ RetryIdle
    /\ CleanIdle
    /\ ConcIdle
    /\ RerunIdle
    /\ EnsureIdle
    /\ pc = "read_call"
    /\ limits = [runs |-> 0, price |-> 0]
    /\ uLines \in UniverseFiles
    /\ uOut = <<>>

\* one call read_universe()
ReadCall ==
    /\ pc = "read_call"
    /\ pc' = "read_done"
    /\ uOut' = read_universe(uLines)
    /\ UNCHANGED <<storeVars, priceVars, volVars, metaVars, mergeVars, retryVars, cleanVars,
                   concVars, rerunVars, ensureVars, uLines, runNo, faults, limits>>

NextRead == ReadCall

\* ------------------------- the metadata pipeline run again on the same sources
\* the companies an earlier price run created for the three symbols
RerunCompanies ==
    ensure_companies(EmptyFn, 1,
        <<[symbol |-> SymA, exchange |-> "NSE", name |-> None],
          [symbol |-> SymB, exchange |-> "NSE", name |-> None],
          [symbol |-> SymABO, exchange |-> "NSE", name |-> None]>>)

\* the companies table before the first run: nothing enriched yet, or some
\* columns filled by earlier runs (a blank name, an isin another entity is
\* going to be offered)
RerunStores ==
    LET base == RerunCompanies.created
        idA  == RerunCompanies.mapping[SymA]
        idB  == RerunCompanies.mapping[SymB]
        idC  == RerunCompanies.mapping[SymABO]
    IN  { base,
          [base EXCEPT ![idB].name = Spaces, ![idB].isin = Isin1],
          [base EXCEPT ![idA].sector = Bank, ![idC].isin = Isin2, ![idC].name = EmptyStr] }

InitRerun ==
    /\ InitLocals
    /\ MergeIdle
    /\ RetryIdle
    /\ CleanIdle
    /\ ConcIdle
    /\ ReadIdle
    /\ EnsureIdle
    /\ pc = "idle"
    /\ limits = [runs |-> MaxMetaRuns, price |-> 0]
    /\ companies \in RerunStores
    /\ nextId = RerunCompanies.nextId
    /\ price_history = EmptyFn
    /\ rerunWorld \in MetaWorlds

\* every run of the metadata pipeline gets the answers of rerunWorld
NextRerun ==
    \/ MetaStart(rerunWorld)
    \/ \E dbOk \in BOOLEAN : MetaProcess(dbOk)
    \/ MetaFinish

\* ------------------------------ volume runs on a store earlier price runs left
\* what the price source held for each symbol when the bars were ingested
VolSeedUpstreams ==
    { [s \in Symbols |-> IF s = SymABO THEN FNew ELSE FOld],
      [s \in Symbols |-> IF s = SymA THEN FOld ELSE IF s = SymB THEN FNew ELSE FEmpty] }

\* the bars insert_into_db stores for the cleaned series of every symbol
VolSeedBars(ups) ==
    LET barsOf(bars, t) == AddBars(bars, RerunCompanies.mapping[t],
                                   validate_ohlcv(ups[t]).df, validate_ohlcv(ups[t]).df.rows)
    IN  barsOf(barsOf(barsOf(EmptyFn, SymA), SymB), SymABO)

InitVol ==
    /\ InitLocals
    /\ MergeIdle
    /\ RetryIdle
    /\ CleanIdle
    /\ ConcIdle
    /\ ReadIdle
    /\ RerunIdle
    /\ EnsureIdle
    /\ pc = "idle"
    /\ limits = [runs |-> MaxRuns, price |-> 0]
    /\ companies = RerunCompanies.created
    /\ nextId = RerunCompanies.nextId
    /\ price_history \in {VolSeedBars(ups) : ups \in VolSeedUpstreams}

\* ---------------------------------------------- ensure_companies on its own
\* one dict of the list passed to ensure_companies
EnsureItem(sym, exch) == [symbol |-> sym, exchange |-> exch, name |-> None]

\* the lists passed: a symbol repeated, one symbol on two exchanges
EnsurePayloads ==
    { <<EnsureItem(SymA, "NSE")>>,
      <<EnsureItem(SymA, "NSE"), EnsureItem(SymB, "NSE"), EnsureItem(SymA, "NSE")>>,
      <<EnsureItem(SymA, "BSE"), EnsureItem(SymA, "NSE")>>,
      <<EnsureItem(SymB, "NSE"), EnsureItem(SymA, "BSE")>> }

InitEnsure ==
    /\ EmptyTables
    /\ InitLocals
    /\ MergeIdle
    /\ RetryIdle
    /\ CleanIdle
    /\ ConcIdle
    /\ ReadIdle
    /\ RerunIdle
    /\ pc = "ensure"
    /\ limits = [runs |-> MaxCalls, price |-> 0]
    /\ ePayload = <<>>

EnsureUnchanged ==
    UNCHANGED <<etl_runs, archive, price_history, sessionOk, tickers, upstream, batchStart,
                symIdx, total_inserted, total_rows, exc, log, run, prev, lastInsert,
                volVars, metaVars, mergeVars, retryVars, cleanVars, concVars, readVars,
                rerunVars, faults, limits>>

\* one call ensure_companies(session, payload): new rows are flushed in the
\* caller's session
EnsureCall(payload) ==
    /\ EnsureUnchanged
    /\ pc = "ensure"
    /\ runNo < limits.runs
    /\ runNo' = runNo + 1
    /\ pc' = "ensured"
    /\ ePayload' = payload
    /\ LET ens == ensure_companies(pending @@ companies, nextId, payload)
       IN  /\ mapping' = ens.mapping
           /\ pending' = ens.created @@ pending
           /\ nextId' = ens.nextId
    /\ companies' = companies

\* the caller's session commits (insert_into_db, log_etl_run)
EnsureCommit ==
    /\ EnsureUnchanged
    /\ pc = "ensured"
    /\ pc' = "ensure"
    /\ companies' = pending @@ companies
    /\ pending' = EmptyFn
    /\ UNCHANGED <<mapping, nextId, runNo, ePayload>>

\* the caller's session rolls back (the handler of process_batch): the
\* flushed rows are gone, the ids they took are not given again
EnsureRollback ==
    /\ EnsureUnchanged
    /\ pc = "ensured"
    /\ pc' = "ensure"
    /\ pending' = EmptyFn
    /\ UNCHANGED <<companies, mapping, nextId, runNo, ePayload>>

NextEnsure ==
    \/ \E payload \in EnsurePayloads : EnsureCall(payload)
    \/ EnsureCommit
    \/ EnsureRollback

Next == PriceNext \/ VolNext \/ MetaNext \/ FillNext

NextMeta == PriceNext \/ MetaNext \/ FillNext

NextMerge == MergeCall

\* every pipeline, run one after the other in any order
Spec == Init /\ [][Next]_vars

\* one price run at most, then metadata and listing-date runs
SpecMeta == InitMeta /\ [][NextMeta]_vars

\* merge_metadata as a function of its two arguments
SpecMerge == InitMerge /\ [][NextMerge]_vars

\* one call of a function decorated with a tenacity retry
SpecRetry == InitRetry /\ [][NextRetry]_vars

\* validate_ohlcv as a function of the raw frame
SpecClean == InitClean /\ [][NextClean]_vars

\* two invocations of the price pipeline interleaved on one store
SpecConc == InitConc /\ [][NextConc]_vars

\* read_universe as a function of the lines of the file
SpecRead == InitRead /\ [][NextRead]_vars

\* volume runs one after the other on a store that holds bars with volume 0;
\* run_fix is one sequential loop of bounded steps, so a run under way goes on
SpecVol == InitVol /\ [][VolNext]_vars /\ WF_vars(VolNext)

\* calls of ensure_companies, each followed by the commit or the rollback of
\* the caller's session
SpecEnsure == InitEnsure /\ [][NextEnsure]_vars

\* metadata runs one after the other, the sources answering the same every time
SpecRerun == InitRerun /\ [][NextRerun]_vars

\* ================================================================== claims
\* not None and not white space only
NonBlank(v) == v # None /\ ~IsBlankStr(v)

\* the five price columns of a stored bar
Prices(bar) == <<bar.open, bar.high, bar.low, bar.close, bar.adj_close>>

\* the running price invocation repeats the previous one: same universe file,
\* same upstream data
RepeatsPrevious ==
    /\ run.n > 0
    /\ prev.n > 0
    /\ run.universe = prev.universe
    /\ run.upstream = prev.upstream

\* the running invocation has inserted nothing, and says so in its RunLog
InsertedNothing ==
    /\ price_history = run.startBars
    /\ run.committed = 0
    /\ total_rows = 0
    /\ run.status # "none" => /\ etl_runs # <<>>
                              /\ etl_runs[Len(etl_runs)].run = run.n
                              /\ etl_runs[Len(etl_runs)].rows_processed = 0

StoredDates(bars, cid) == {d \in 1..4 : <<cid, d>> \in DOMAIN bars}

\* C2: a call of insert_into_db that returns has added exactly the rows of
\* the cleaned series whose date was not stored for that entity, with the
\* values of those rows, has left every stored bar alone, and has returned
\* the number of rows added.
C2_InsertsExactlyNewDates ==
    (lastInsert.seq > 0 /\ ~lastInsert.raised) =>
        LET cid    == lastInsert.company_id
            rows   == lastInsert.df.rows
            stored == StoredDates(lastInsert.before, cid)
            fresh  == {i \in 1..Len(rows) : ~(rows[i].date \subseteq stored)}
        IN  /\ DOMAIN lastInsert.after =
                 DOMAIN lastInsert.before \cup {<<cid, d>> : d \in UNION {rows[i].date : i \in fresh}}
            /\ \A k \in DOMAIN lastInsert.before : lastInsert.after[k] = lastInsert.before[k]
            /\ \A i \in fresh : \A d \in rows[i].date :
                  /\ lastInsert.after[<<cid, d>>].close = rows[i].cells["Close"]
                  /\ lastInsert.after[<<cid, d>>].open = rows[i].cells["Open"]
                  /\ "Volume" \in lastInsert.df.cols
                        => lastInsert.after[<<cid, d>>].volume = rows[i].cells["Volume"]
            /\ lastInsert.inserted = Cardinality(fresh)
            /\ pc = "symbol" \/ pc = "batch" \/ pc = "log" => price_history = lastInsert.after

\* the example of the claim: dates 2 and 3 stored, rows dated 2, 3 and 4
\* incoming, one row (date 4) inserted and 1 returned
C2_Witness ==
    /\ lastInsert.seq > 0 /\ ~lastInsert.raised
    /\ StoredDates(lastInsert.before, lastInsert.company_id) = {2, 3}
    /\ UNION {r.date : r \in Range(lastInsert.df.rows)} = {2, 3, 4}
    /\ lastInsert.inserted = 1
    /\ StoredDates(lastInsert.after, lastInsert.company_id) = {2, 3, 4}

\* this step is a call of insert_into_db that raised
InsertRaised == lastInsert'.seq # lastInsert.seq /\ lastInsert'.raised

\* C3: when the insert of one entity's new rows fails, the step stores none
\* of them, leaves nothing uncommitted in the session (rollback), logs the
\* failure for that ticker, and no ticker of the run has its insert attempted
\* more than once.
C3_FailedInsertStoresNothing ==
    [][ /\ InsertRaised =>
            /\ price_history' = price_history
            /\ pending' = EmptyFn
            /\ [ev |-> "db_insert_error", idx |-> lastInsert'.idx] \in log'
            /\ run'.attempts[lastInsert'.idx] = 1
        /\ \A i \in DOMAIN run'.attempts : run'.attempts[i] <= 1 ]_vars

\* an insert failed although the cleaned series held rows of dates not stored
C3_Witness ==
    /\ lastInsert.seq > 0 /\ lastInsert.raised
    /\ \E r \in Range(lastInsert.df.rows) :
          ~(r.date \subseteq StoredDates(lastInsert.before, lastInsert.company_id))
    /\ [ev |-> "db_insert_error", idx |-> lastInsert.idx] \in log
    /\ price_history = lastInsert.before

\* C4: no step of any pipeline changes open, high, low, close or adjusted
\* close of a stored bar, and a step changes the volume of a stored bar only
\* if that volume is 0 before the step.
C4_StoredPricesImmutable ==
    [][ \A k \in DOMAIN price_history :
            k \in DOMAIN price_history' =>
                /\ Prices(price_history'[k]) = Prices(price_history[k])
                /\ price_history'[k].volume # price_history[k].volume
                      => price_history[k].volume = {0} ]_vars

\* the reconciler has replaced the volume 0 of a stored bar, prices untouched
C4_Witness ==
    /\ lastVol.seq > 0
    /\ \E k \in DOMAIN lastVol.before :
          /\ lastVol.before[k].volume = {0}
          /\ price_history[k].volume # {0}
          /\ Prices(price_history[k]) = Prices(lastVol.before[k])

\* C5: while the volume reconciler runs, a bar whose volume is > 0 is not
\* changed in the store, and no update the reconciler has executed and not
\* yet committed addresses such a bar.
C5_PositiveVolumeUntouched ==
    [][ pc = "vol" =>
          \A k \in DOMAIN price_history :
              (\E v \in price_history[k].volume : v > 0) =>
                  /\ k \in DOMAIN price_history'
                  /\ price_history'[k] = price_history[k]
                  /\ k \notin DOMAIN volPending' ]_vars

\* a date was reconciled on which a bar with volume > 0 has a symbol for which
\* the snapshot reports another volume, and the bar kept its volume
C5_Witness ==
    /\ lastVol.seq > 0
    /\ \E k \in DOMAIN lastVol.before :
          /\ k[2] = lastVol.dt
          /\ \E v \in lastVol.before[k].volume : v > 0
          /\ BhavLookup(lastVol.map, lastVol.comps[k[1]].symbol) # {}
          /\ BhavLookup(lastVol.map, lastVol.comps[k[1]].symbol) # lastVol.before[k].volume
          /\ price_history[k] = lastVol.before[k]

\* the entity symbol without its exchange suffix, in the snapshot's upper case
BaseSymbol(sym) == Upper(SplitDotHead(sym))

\* this step is a call of update_volumes_for_date that returned
VolumesUpdated == lastVol'.seq # lastVol.seq /\ lastVol'.seq > 0

\* C6: a call of update_volumes_for_date(dt, snapshot) that returns sets the
\* volume of every zero-volume bar of dt whose base symbol is in the snapshot
\* to the snapshot's value, changes no other column of it, and changes no
\* bar of another date (bars as the reconciler's session sees them).
C6_OnlyVolumeOfThatDate ==
    [][ VolumesUpdated =>
          \A k \in DOMAIN price_history :
              /\ k \in DOMAIN price_history'
              /\ (k[2] = lastVol'.dt /\ VolView[k].volume = {0}
                  /\ BaseSymbol(companies[k[1]].symbol) \in DOMAIN lastVol'.map)
                    => /\ price_history'[k].volume =
                            {lastVol'.map[BaseSymbol(companies[k[1]].symbol)]}
                       /\ Prices(price_history'[k]) = Prices(price_history[k])
              /\ k[2] # lastVol'.dt => price_history'[k] = VolView[k] ]_vars

\* a zero-volume bar was given the snapshot's volume while zero-volume bars
\* of another date stayed as they were
C6_Witness ==
    /\ lastVol.seq > 0
    /\ \E k \in DOMAIN lastVol.before :
          /\ k[2] = lastVol.dt
          /\ lastVol.before[k].volume = {0}
          /\ lastVol.after[k].volume = {70}
    /\ \E k \in DOMAIN lastVol.before :
          /\ k[2] # lastVol.dt
          /\ lastVol.before[k].volume = {0}
          /\ lastVol.after[k] = lastVol.before[k]

\* C7 as stated: for every field the result of merge_metadata is incoming's
\* value if current's is absent or blank and incoming's is present and
\* non-blank, and current's value otherwise.
C7_MergeRule ==
    pc = "merge_done" =>
        \A k \in MetaFields :
            mOut[k] = IF ~NonBlank(mIn.current[k]) /\ NonBlank(mIn.new[k])
                      THEN mIn.new[k] ELSE mIn.current[k]

\* C8: no step of a metadata-enrichment run or of a listing-date backfill
\* changes a descriptive field of an entity whose stored value is non-blank.
C8_NonBlankFieldsKept ==
    [][ \A id \in DOMAIN companies : \A f \in MetaFields :
            NonBlank(companies[id][f]) =>
                /\ id \in DOMAIN companies'
                /\ companies'[id][f] = companies[id][f] ]_vars

\* update_company_in_db was offered another value for a field stored
\* non-blank, and the stored value is still there
C8_Witness ==
    /\ lastOffer.seq > 0
    /\ lastOffer.company_id \in DOMAIN companies
    /\ \E f \in DOMAIN lastOffer.updates :
          /\ NonBlank(lastOffer.before[f])
          /\ NonBlank(lastOffer.updates[f])
          /\ lastOffer.updates[f] # lastOffer.before[f]
          /\ companies[lastOffer.company_id][f] = lastOffer.before[f]

\* first indexes of the batches of the universe read
BatchStarts == {i \in 1..Len(tickers) : (i - 1) % BATCH_SIZE = 0}

\* C9 as stated: when download_yf fails for a batch the failure does not
\* reach the handler that ends the run; the run goes on to every later batch
\* and does not end FAILED.
C9_FailedBatchIsSkipped ==
    (run.n > 0 /\ run.fetchFail # {}) =>
        /\ pc # "except"
        /\ pc = "finally" => /\ run.status # "FAILED"
                             /\ BatchStarts \subseteq run.fetched \cup run.fetchFail

\* C10 as stated: when validating, archiving or persisting one symbol fails,
\* the run still processes every other ticker of the universe.
C10_SymbolFailureIsLocal ==
    (run.n > 0 /\ pc = "finally" /\ (run.symExc # {} \/ run.insFail # {})) =>
        run.visited = 1..Len(tickers)

\* rows of etl_runs written by the running invocation
RunLogsOfRun == {i \in DOMAIN etl_runs : etl_runs[i].run = run.n}

\* C11 as stated: a price invocation that can reach storage when it writes
\* its RunLog has written exactly one RunLog row when it ends, also when the
\* run failed on a storage error raised during entity setup or persistence.
C11_ExactlyOneRunLog ==
    (pc = "finally" /\ ~run.logDown) => Cardinality(RunLogsOfRun) = 1

\* every batch of the universe was fetched and every ticker visited
AllBatchesProcessed ==
    /\ BatchStarts \subseteq run.fetched
    /\ run.visited = 1..Len(tickers)

\* this step appends a RunLog row
WritesRunLog == Len(etl_runs') = Len(etl_runs) + 1

\* an exception left the batch loop: download_yf gave up, or validating or
\* archiving a symbol raised
EscapedBatchLoop == pc = "except" /\ (run.fetchFail # {} \/ run.symExc # {})

\* the order of the stages, the SUCCESS row only after the last batch, no
\* batch work once an exception is caught
StagesInOrder ==
    /\ pc \in {"batch", "symbol"} => tickers' = tickers /\ mapping' = mapping
    /\ (WritesRunLog /\ etl_runs'[Len(etl_runs')].status \in {"SUCCESS", "PARTIAL"})
          => pc = "log" /\ AllBatchesProcessed
    /\ pc \in {"except", "finally"}
          => /\ run'.n = run.n => run'.fetched = run.fetched /\ run'.visited = run.visited
             /\ price_history' = price_history

\* C12 as stated: the stages run in order, the SUCCESS or PARTIAL RunLog is
\* written only after every batch was processed, and an exception that
\* escapes the batch loop makes the run write a FAILED RunLog carrying the
\* exception's text and end without processing another batch.
C12_StagesAndFailedRunLog ==
    [][ /\ StagesInOrder
        /\ EscapedBatchLoop =>
              /\ pc' = "finally"
              /\ etl_runs' = Append(etl_runs,
                                 RunLog("fetch_price_history", "FAILED", 0, exc)) ]_vars

\* C12 amended: as above, but the FAILED RunLog is written unless writing it
\* fails as well, in which case the failure is logged and the run ends
\* without a RunLog.
C12_StagesAndFailedRunLogAttempt ==
    [][ /\ StagesInOrder
        /\ EscapedBatchLoop =>
              /\ pc' = "finally"
              /\ \/ etl_runs' = Append(etl_runs,
                                    RunLog("fetch_price_history", "FAILED", 0, exc))
                 \/ /\ etl_runs' = etl_runs
                    /\ run'.logDown
                    /\ [ev |-> "runlog_write_failed", idx |-> 0] \in log' ]_vars

\* a FAILED row carrying the exception was written after a later batch was
\* left unprocessed
C12_Witness ==
    /\ pc = "finally"
    /\ run.fetchFail \cup run.symExc # {}
    /\ ~AllBatchesProcessed
    /\ RunLogsOfRun # {}
    /\ \A i \in RunLogsOfRun : /\ etl_runs[i].status = "FAILED"
                                /\ etl_runs[i].error_message = exc

\* C13 as stated: the rows_processed of the RunLog an invocation wrote is the
\* number of PriceBar rows the invocation inserted and committed, whatever
\* the status of the RunLog.
C13_RowsProcessedIsCumulative ==
    pc = "finally" =>
        \A i \in RunLogsOfRun : etl_runs[i].rows_processed = run.committed

\* C14 as stated: from ENSURE_ENTITIES to the end of the batch loop every id
\* of the symbol-to-entity mapping is the id of a company the session can
\* see, also after the rollback of a failed insert.
C14_MappingRefersToStoredCompany ==
    pc \in {"batch", "symbol", "log"} =>
        \A t \in DOMAIN mapping : mapping[t] \in DOMAIN (pending @@ companies)

\* C15 as stated: a retried call makes between one and five attempts, returns
\* the result of the first attempt that succeeds, and when it raises, what
\* reaches the caller is the failure of its last attempt.
C15_AttemptsAndOriginalFailure ==
    /\ rAttempt <= STOP_AFTER_ATTEMPT
    /\ pc \in {"retry_sleep", "retry_returned", "retry_raised"} => rAttempt >= 1
    /\ pc = "retry_returned" =>
          /\ rOutcomes[rAttempt] = "ok"
          /\ \A k \in 1..(rAttempt - 1) : rOutcomes[k] # "ok"
    /\ pc = "retry_raised" => rRaised = rOutcomes[rAttempt]

\* the wait after failed attempt k as the claim computes it
ClaimedWait(k) == Min(rPolicy.multiplier * Pow2(k - 1), rPolicy.max)

\* the waits never decrease, never exceed the maximum, and there is one wait
\* less than attempts: none before the first attempt
WaitsOrdered ==
    /\ \A k \in 1..Len(rWaits) : rWaits[k] <= rPolicy.max
    /\ \A k \in 1..(Len(rWaits) - 1) : rWaits[k] <= rWaits[k + 1]
    /\ pc = "retry_call" => Len(rWaits) = rAttempt
    /\ pc # "retry_call" => Len(rWaits) = rAttempt - 1

\* C16 as stated: the wait between attempt k and attempt k+1 is
\* base * 2^(k-1) seconds clamped to the maximum of the decorator; waits never
\* decrease, never exceed the maximum, and none precedes the first attempt.
C16_WaitIsClampedToMax ==
    /\ \A k \in 1..Len(rWaits) : rWaits[k] = ClaimedWait(k)
    /\ WaitsOrdered

\* C16 amended: the wait between attempt k and attempt k+1 is base * 2^(k-1)
\* seconds clamped between the minimum and the maximum of the decorator
\* (2 and 30 for the price fetch, 1 and 10 for the others); waits never
\* decrease, never exceed the maximum, and none precedes the first attempt.
C16_WaitIsClampedToMinAndMax ==
    /\ \A k \in 1..Len(rWaits) : rWaits[k] = Max(rPolicy.min, ClaimedWait(k))
    /\ WaitsOrdered

\* download_yf failed five times and slept 2, 2, 4 and 8 seconds in between
C16_Witness ==
    /\ pc = "retry_raised"
    /\ rPolicy = DownloadYfPolicy
    /\ rAttempt = STOP_AFTER_ATTEMPT
    /\ rWaits = <<2, 2, 4, 8>>

\* C17 as stated: an attempt that fails with a non-transient failure is the
\* only attempt of the call, and that failure is what the call raises.
C17_NonTransientNotRetried ==
    \A k \in 1..rAttempt :
        rOutcomes[k] = "other" =>
            /\ k = 1
            /\ rAttempt = 1
            /\ pc = "retry_raised"
            /\ rRaised = "other"

\* validate_ohlcv returned a frame
CleanReturned == pc \in {"clean_again", "clean_done"}

\* C18: whenever validate_ohlcv returns for a raw frame, applying it to the
\* frame it returned returns that same frame.
C18_ValidateIdempotent ==
    pc = "clean_done" => /\ ~cAgain.raised
                         /\ cAgain.df = cOut.df

\* cleaning changed the raw frame (a cell was filled or a row dropped), rows
\* are left, and cleaning them again changed nothing
C18_Witness ==
    /\ pc = "clean_done"
    /\ cOut.df.rows # <<>>
    /\ cOut.df.rows # cIn.rows
    /\ Len(cOut.df.rows) < Len(cIn.rows)
    /\ \E i \in 1..Len(cOut.df.rows) : \A r \in Range(cIn.rows) : cOut.df.rows[i] # r
    /\ cAgain.df = cOut.df

\* C19 as stated: the frame validate_ohlcv returns has strictly increasing
\* dates (chronological, no date twice) and no price that is <= 0.
C19_IncreasingDatesPositivePrices ==
    CleanReturned =>
        LET out == cOut.df.rows
        IN  /\ \A i \in 1..Len(out) : out[i].date # {}
            /\ \A i, j \in 1..Len(out) :
                  i < j => \A x \in out[i].date, y \in out[j].date : x < y
            /\ \A i \in 1..Len(out) :
                  \A c \in PriceCols : \A x \in out[i].cells[c] : x > 0

\* the rows of the raw series: dated and not NaN in every column
Series ==
    SelectSeq(cIn.rows, LAMBDA r : r.date # {} /\ \E c \in cIn.cols : r.cells[c] # {})

\* row i of the series holds a valid value of price field c
ValidAt(i, c) == \E x \in Series[i].cells[c] : x > 0

\* the value the claim gives price field c of row i: its own when valid, or
\* that of the nearest earlier row holding a valid one, or none
ClaimedPrice(i, c) ==
    IF \E j \in 1..i : ValidAt(j, c)
    THEN LET j == CHOOSE j \in 1..i :
                      ValidAt(j, c) /\ \A m \in (j + 1)..i : ~ValidAt(m, c)
         IN  Series[j].cells[c]
    ELSE {}

\* row i of the series as the claim cleans it
ClaimedRow(i) ==
    [Series[i] EXCEPT !.cells =
        [c \in AllCols |->
            IF c \in PriceCols THEN ClaimedPrice(i, c)
            ELSE IF c \in cIn.cols /\ Series[i].cells[c] = {} THEN {0}
            ELSE Series[i].cells[c]]]

\* C20: whenever validate_ohlcv returns, every row of the series has each
\* price field that is <= 0 or missing replaced by the value of the nearest
\* earlier row holding a valid one (left missing before the first valid
\* value), a missing volume replaced by 0, and exactly the rows that then
\* still lack close or adjusted close are dropped.
C20_FillAndDrop ==
    CleanReturned =>
        cOut.df.rows =
            SelectSeq([i \in 1..Len(Series) |-> ClaimedRow(i)],
                      LAMBDA r : r.cells["Close"] # {} /\ r.cells["Adj Close"] # {})

\* the scenario of the claim on three dates: the close of the second date is
\* -5, all three rows are returned, the second with the close of the first
\* and every volume >= 0
C20_Witness ==
    /\ CleanReturned
    /\ Len(cIn.rows) = 3
    /\ \A i \in 1..3 : cIn.rows[i].date = {i}
    /\ cIn.rows[2].cells["Close"] = {0 - 5}
    /\ Len(cOut.df.rows) = 3
    /\ cOut.df.rows[2].cells["Close"] = cIn.rows[1].cells["Close"]
    /\ cOut.df.rows[2].cells["Close"] # {}
    /\ \A i \in 1..3 : \E v \in cOut.df.rows[i].cells["Volume"] : v >= 0

\* this step is the iteration of run_fix for a date whose snapshot is unavailable
SkipsUnavailableDate ==
    /\ pc = "vol"
    /\ volIdx <= Len(volDates)
    /\ volWorld[volDates[volIdx]].kind = "unavailable"

\* C21: the iteration of run_fix for a zero-volume date whose snapshot is
\* unavailable changes no bar (stored or pending in the session), adds
\* nothing to the report, calls no update, leaves run_fix running and moves
\* to the next date of the same list.
C21_UnavailableDateIsSkipped ==
    [][ SkipsUnavailableDate =>
          /\ price_history' = price_history
          /\ volPending' = volPending
          /\ report' = report
          /\ lastVol' = lastVol
          /\ pc' = "vol"
          /\ volDates' = volDates
          /\ volIdx' = volIdx + 1 ]_vars

\* a date with an unavailable snapshot was passed, its zero-volume bar is
\* still zero, and a later date's bar was updated and reported
C21_Witness ==
    /\ pc = "vol"
    /\ \E i \in 1..Len(volDates) :
          /\ i < volIdx
          /\ volWorld[volDates[i]].kind = "unavailable"
          /\ \E k \in DOMAIN price_history :
                k[2] = volDates[i] /\ price_history[k].volume = {0}
          /\ lastVol.seq > 0
          /\ lastVol.dt > volDates[i]
          /\ \E r \in report : r.trade_date = lastVol.dt

\* C22: when update_volumes_for_date returns, every zero-volume bar of its
\* date whose base symbol is not in the snapshot is unchanged and has an
\* entry in the run's report.
C22_MissIsReportedUnresolved ==
    [][ VolumesUpdated =>
          \A k \in DOMAIN lastVol'.before :
              (/\ k[2] = lastVol'.dt
               /\ lastVol'.before[k].volume = {0}
               /\ BaseSymbol(companies[k[1]].symbol) \notin DOMAIN lastVol'.map)
                => /\ price_history'[k] = lastVol'.before[k]
                   /\ \E r \in report' : r.key = k ]_vars

\* C23: a price run whose universe file is missing never writes a RunLog
\* row, its exception is not handled inside main (the handler's "ETL
\* failed" record is the sign that it was caught), and it creates no
\* company and no bar.
C23_MissingUniverseAborts ==
    (run.n > 0 /\ run.universe = Missing) =>
        /\ RunLogsOfRun = {}
        /\ \A e \in log : e.ev # "etl_failed"
        /\ pending = EmptyFn
        /\ price_history = run.startBars

\* this step is the commit of invocation p hitting uq_price_company_date
HitsUniqueConstraint(p) ==
    /\ procs[p].pc = "insert"
    /\ procs'[p] # procs[p]
    /\ LET me == procs[p]
           t  == me.universe[me.idx]
           to_insert == ToInsert(me.existing, validate_ohlcv(me.upstream[t]).df)
       IN  StoredTwice(price_history, me.mapping[t], to_insert) # {}

\* C24: with two price invocations interleaved on one store, no
\* (company, trade date) is ever stored twice, and an invocation whose commit
\* hits the unique constraint leaves the store as it was, ends its
\* transaction, logs the failure for that ticker and goes on with its next
\* ticker, its inserted count unchanged.
C24_ConcurrentInsertsStayUnique ==
    /\ [](dupBars = {})
    /\ [][ \A p \in Invocations : HitsUniqueConstraint(p) =>
              /\ price_history' = price_history
              /\ companies' = companies
              /\ [ev |-> "insert_failed", idx |-> procs[p].idx] \in procs'[p].log
              /\ ~procs'[p].txn.open
              /\ procs'[p].total_inserted = procs[p].total_inserted
              /\ procs'[p].pc = "fetch"
              /\ procs'[p].idx = procs[p].idx + 1 ]_vars

\* one invocation lost the race for its first ticker and then inserted the
\* bars of its second one, while the other invocation inserted too
C24_Witness ==
    \E p \in Invocations, q \in Invocations :
        /\ p # q
        /\ [ev |-> "insert_failed", idx |-> 1] \in procs[p].log
        /\ procs[p].idx = 3
        /\ procs[p].total_inserted > 0
        /\ procs[q].total_inserted > 0
        /\ dupBars = {}

\* C25: every stored bar has a volume that is an integer >= 0, every price
\* field of it is absent or > 0, and its close and adjusted close are present.
C25_StoredBarsWellFormed ==
    \A k \in DOMAIN price_history :
        LET bar == price_history[k]
        IN  /\ bar.volume # {}
            /\ \A v \in bar.volume : v \in Nat
            /\ \A x \in bar.open \cup bar.high \cup bar.low \cup bar.close
                           \cup bar.adj_close : x > 0
            /\ bar.close # {}
            /\ bar.adj_close # {}

\* this step is the iteration of process_batch for a ticker whose fetch
\* returned no rows or whose cleaned series is empty
NothingToStore ==
    /\ pc = "symbol"
    /\ LET df == upstream[tickers[symIdx]]
       IN  \/ df.rows = <<>>
           \/ ~validate_ohlcv(df).raised /\ validate_ohlcv(df).df.rows = <<>>

\* C26: the iteration for a ticker without fetched rows or without cleaned
\* rows stores and archives nothing, leaves the inserted counts as they
\* were, raises nothing, and the run goes on with the ticker that follows
\* it in the universe (after the next batch's fetch when the batch is over)
\* or, after the last ticker, with the RunLog of a run that did not fail.
C26_EmptySeriesIsSkipped ==
    [][ NothingToStore =>
          /\ price_history' = price_history
          /\ companies' = companies
          /\ archive' = archive
          /\ total_inserted' = total_inserted
          /\ total_rows' \in {total_rows, total_rows + total_inserted}
          /\ exc' = exc
          /\ pc' \in {"symbol", "batch", "log"}
          /\ pc' = "symbol" => symIdx' = symIdx + 1
          /\ pc' = "batch" => batchStart' = symIdx + 1
          /\ pc' = "log" => symIdx = Len(tickers) ]_vars

\* a run ended SUCCESS with rows inserted although the cleaned series of
\* its last ticker was empty; nothing was archived for that ticker
C26_Witness ==
    /\ pc = "finally"
    /\ run.status = "SUCCESS"
    /\ run.rows_processed > 0
    /\ \E i \in 1..Len(tickers) :
          /\ [ev |-> "empty_after_validation", idx |-> i] \in log
          /\ <<"bronze", tickers[i]>> \notin archive
          /\ <<"silver", tickers[i]>> \notin archive

\* the content of a line: the line without surrounding whitespace
LineContent(l) == Strip(l)

\* a line that holds a symbol: not blank, and its content is not a comment
SymbolLine(l) == LineContent(l) # <<>> /\ Head(LineContent(l)) # "#"

\* C27: read_universe returns the contents of the lines that are neither
\* blank nor comments, in file order; a line is a comment when its content
\* starts with '#', also after leading whitespace; no returned symbol is
\* empty or starts with '#'.
C27_ReadUniverseSkipsComments ==
    pc = "read_done" =>
        /\ LET kept == SelectSeq(uLines, SymbolLine)
           IN  uOut = [i \in 1..Len(kept) |-> LineContent(kept[i])]
        /\ \A i \in 1..Len(uOut) : uOut[i] # <<>> /\ Head(uOut[i]) # "#"

\* every row of the cleaned series of every ticker of the running
\* invocation's universe is stored
NothingMissing ==
    \A i \in 1..Len(run.universe) :
        LET t == run.universe[i]
            v == validate_ohlcv(run.upstream[t])
        IN  ~v.raised =>
              \A r \in Range(v.df.rows) : \A d \in r.date :
                  \E cid \in FindCompany(companies, t, "NSE") :
                      <<cid, d>> \in DOMAIN price_history

\* the bars stored when the running invocation started are still stored
StartBarsKept ==
    \A k \in DOMAIN run.startBars :
        k \in DOMAIN price_history /\ Prices(price_history[k]) = Prices(run.startBars[k])

\* C28: no step removes a stored bar, and when a price run has ended that
\* repeats (same universe, same upstream data) a run that ended FAILED after
\* committing the inserts of some entities, the bars stored at its start
\* are still stored and every bar that was missing is stored.
C28_LaterRunInsertsMissingBars ==
    /\ [][ \A k \in DOMAIN price_history : k \in DOMAIN price_history' ]_vars
    /\ []( (RepeatsPrevious /\ prev.status = "FAILED" /\ prev.committed > 0
              /\ pc = "finally")
            => (StartBarsKept /\ NothingMissing) )

\* this step is a call of process_single
SingleProcessed == lastOffer'.seq # lastOffer.seq /\ lastOffer'.seq > 0

\* C29: a call of process_single that consults the fallback source was
\* given by the primary source a name, sector or industry that is None or
\* blank; when the primary returned all three, the fallback is not called.
C29_FallbackOnlyWhenIncomplete ==
    [][ SingleProcessed =>
          (lastOffer'.mcCalled =>
              \E f \in {"name", "sector", "industry"} : ~NonBlank(lastOffer'.primary[f]))
      ]_vars

\* the primary source returned name, sector and industry, the fallback
\* source was not called, and the primary's name was stored
C29_Witness ==
    /\ lastOffer.seq > 0
    /\ \A f \in {"name", "sector", "industry"} : NonBlank(lastOffer.primary[f])
    /\ ~lastOffer.mcCalled
    /\ lastOffer.company_id \in DOMAIN companies
    /\ lastOffer.before["name"] = None
    /\ companies[lastOffer.company_id]["name"] = lastOffer.primary["name"]

\* the value the precedence rule gives a field
ByPrecedence(stored, primary, fallback) ==
    IF NonBlank(stored) THEN stored
    ELSE IF NonBlank(primary) THEN primary
    ELSE IF NonBlank(fallback) THEN fallback
    ELSE stored

\* C30: after process_single has handled an entity, each descriptive field
\* holds the stored value if that was non-blank, else the primary source's
\* value if present, else the fallback source's value if present, else what
\* it held before.
C30_SourcePrecedence ==
    [][ SingleProcessed =>
          \A f \in MetaFields :
              companies'[lastOffer'.company_id][f] =
                  ByPrecedence(lastOffer'.before[f], lastOffer'.primary[f],
                               lastOffer'.fallback[f]) ]_vars

ZeroVolumeDates == {k[2] : k \in {kk \in DOMAIN price_history : price_history[kk].volume = {0}}}

\* C32: a volume run processes exactly the distinct trade dates that held a
\* bar with volume 0 when it started, each once, in ascending order: its list
\* of dates is strictly ascending and holds exactly those dates, every
\* iteration takes the next date of the list, and the run ends only after the
\* last one.
C32_ZeroVolumeDatesOnceAscending ==
    [][/\ (pc = "idle" /\ pc' = "vol") =>
             /\ \A i \in 1..Len(volDates') : \A j \in 1..Len(volDates') :
                    i < j => volDates'[i] < volDates'[j]
             /\ Range(volDates') = ZeroVolumeDates
             /\ volIdx' = 1
       /\ (pc = "vol" /\ pc' = "vol") =>
             /\ volDates' = volDates
             /\ volIdx <= Len(volDates)
             /\ volIdx' = volIdx + 1
       /\ (pc = "vol" /\ pc' = "idle") => volIdx = Len(volDates) + 1]_vars

\* a run has gone through two dates, while a stored date has no bar with volume 0
C32_Witness ==
    /\ pc = "vol"
    /\ Len(volDates) >= 2
    /\ volIdx = Len(volDates) + 1
    /\ \E k \in DOMAIN price_history : k[2] \notin Range(volDates)

\* C33: every bar whose volume a volume run changes in the store has an entry
\* in that run's report, also when an update of some date raised part-way.
C33_ChangedVolumeIsReported ==
    [][pc = "vol" =>
          \A k \in DOMAIN price_history :
              price_history'[k].volume # price_history[k].volume =>
                  \E r \in report' : r.key = k]_vars

\* the iteration of run_fix that is about to run raises: the snapshot of its
\* date cannot be fetched or parsed, or (in the step taken) an UPDATE fails
DateRaises ==
    /\ pc = "vol"
    /\ volIdx <= Len(volDates)
    /\ \/ volWorld[volDates[volIdx]].kind # "ok"
       \/ faults' > faults

\* C34: an error while fetching, parsing or applying the snapshot of one date
\* never aborts the volume run: the run goes on with the next date of its
\* list, the list unchanged, and every run under way reaches its end.
C34_DateErrorNeverAbortsRun ==
    /\ [][DateRaises => (pc' = "vol" /\ volIdx' = volIdx + 1 /\ volDates' = volDates)]_vars
    /\ [][(pc = "vol" /\ pc' = "idle") => volIdx > Len(volDates)]_vars
    /\ ((pc = "vol") ~> (pc = "idle"))

\* a run has got past a date whose snapshot could not be read and has
\* updated the volumes of a later date
C34_Witness ==
    /\ pc = "vol"
    /\ volIdx = Len(volDates) + 1
    /\ \E i \in 1..Len(volDates) - 1 : volWorld[volDates[i]].kind # "ok"
    /\ lastVol.seq >= 1
    /\ lastVol.dt = volDates[Len(volDates)]

\* the entities with symbol sym on exchange exch among rows
EntitiesOf(rows, sym, exch) ==
    {id \in DOMAIN rows : rows[id].symbol = sym /\ rows[id].exchange = exch}

\* C35: ensure_companies returns, for every symbol of its input, the id of an
\* entity with that symbol; it creates an entity only for a (symbol,
\* exchange) of its input that no entity has yet; no two entities ever share
\* a (symbol, exchange); and a stored entity keeps its id, symbol and exchange.
C35_EnsureCompaniesUpsertsOnFirstSight ==
    /\ [](\A a \in DOMAIN (pending @@ companies) : \A b \in DOMAIN (pending @@ companies) :
             ((pending @@ companies)[a].symbol = (pending @@ companies)[b].symbol
              /\ (pending @@ companies)[a].exchange = (pending @@ companies)[b].exchange)
             => a = b)
    /\ [](pc = "ensured" =>
             /\ DOMAIN mapping = {ePayload[i].symbol : i \in 1..Len(ePayload)}
             /\ \A sym \in DOMAIN mapping :
                    /\ mapping[sym] \in DOMAIN (pending @@ companies)
                    /\ (pending @@ companies)[mapping[sym]].symbol = sym
                    /\ \E i \in 1..Len(ePayload) :
                          /\ ePayload[i].symbol = sym
                          /\ (pending @@ companies)[mapping[sym]].exchange
                                = ePayload[i].exchange)
    /\ [][(pc = "ensure" /\ pc' = "ensured") =>
             \A id \in DOMAIN pending' \ DOMAIN pending :
                 /\ EntitiesOf(pending @@ companies,
                               pending'[id].symbol, pending'[id].exchange) = {}
                 /\ \E i \in 1..Len(ePayload') :
                       /\ ePayload'[i].symbol = pending'[id].symbol
                       /\ ePayload'[i].exchange = pending'[id].exchange]_vars
    /\ [][\A id \in DOMAIN companies :
             /\ id \in DOMAIN companies'
             /\ companies'[id].symbol = companies[id].symbol
             /\ companies'[id].exchange = companies[id].exchange]_vars

\* a call whose input repeats a symbol has created one entity and found
\* another one stored, after an earlier call's rows were rolled back
C35_Witness ==
    /\ pc = "ensured"
    /\ \E i \in 1..Len(ePayload) : \E j \in 1..Len(ePayload) :
          i < j /\ ePayload[i] = ePayload[j]
    /\ DOMAIN pending # {}
    /\ \E sym \in DOMAIN mapping : mapping[sym] \in DOMAIN companies
    /\ nextId > Cardinality(DOMAIN (pending @@ companies)) + 1

\* the invocation under way has written its RunLog
RunLogWritten == pc # "idle" /\ \E i \in 1..Len(etl_runs) : etl_runs[i].run = runNo

\* C36: an invocation writes at most one RunLog row; after that row nothing
\* more is written to the store by the invocation (no bar, no company, no
\* second RunLog); and no step of any pipeline changes or removes a RunLog
\* row that is stored.
C36_OneRunLogWrittenLast ==
    /\ [](\A i \in 1..Len(etl_runs) : \A j \in 1..Len(etl_runs) :
             etl_runs[i].run = etl_runs[j].run => i = j)
    /\ [][RunLogWritten =>
             /\ price_history' = price_history
             /\ companies' = companies
             /\ etl_runs' = etl_runs]_vars
    /\ [][/\ Len(etl_runs') >= Len(etl_runs)
          /\ \A i \in 1..Len(etl_runs) : etl_runs'[i] = etl_runs[i]]_vars

\* a second price invocation that inserted bars has written its RunLog
\* after the one of the first invocation
C36_Witness ==
    /\ pc = "finally"
    /\ Len(etl_runs) >= 2
    /\ etl_runs[Len(etl_runs)].run = runNo
    /\ run.committed > 0

\* C37: no step of any pipeline (price, volume, metadata, listing date),
\* a rollback included, removes a committed bar: the set of committed
\* (entity, trade date) keys only grows.
C37_CommittedBarsNeverDeleted ==
    [][DOMAIN price_history \subseteq DOMAIN price_history']_vars

\* a price run that rolled back the insert of one ticker has added bars for
\* another ticker to bars committed by an earlier run
C37_Witness ==
    /\ pc # "idle"
    /\ run.insFail # {}
    /\ lastInsert.seq >= 1
    /\ lastInsert.inserted > 0
    /\ DOMAIN lastInsert.before # {}
    /\ DOMAIN lastInsert.before \subseteq DOMAIN price_history
    /\ DOMAIN price_history # DOMAIN lastInsert.before

\* what the sources answered for the entity of the latest process_single
LastSource == metaWorld[companies[lastOffer.company_id].symbol]

\* the fallback source was consulted for that entity and its search or its
\* scrape raised after the retries
FallbackFailed ==
    /\ pc = "meta"
    /\ lastOffer.seq >= 1
    /\ lastOffer.mcCalled
    /\ LastSource.mc.kind \in {"search_failed", "scrape_failed"}

\* C38: when the fallback source fails in process_single, the result of the
\* primary source is kept and the entity is not failed: exactly the fields
\* the primary source supplied (None and "" left out) are offered to
\* update_company_in_db.
C38_FallbackFailureKeepsPrimary ==
    FallbackFailed =>
        /\ DOMAIN lastOffer.updates =
              {f \in MetaFields : lastOffer.primary[f] # None /\ lastOffer.primary[f] # EmptyStr}
        /\ \A f \in DOMAIN lastOffer.updates : lastOffer.updates[f] = lastOffer.primary[f]
        /\ lastOffer.primary = PrimaryInfo(LastSource)

\* the scrape failed for an entity whose primary source gave a sector, and
\* the sector is stored
C38_Witness ==
    /\ FallbackFailed
    /\ LastSource.mc.kind = "scrape_failed"
    /\ LastSource.yf.ok
    /\ "sector" \in DOMAIN lastOffer.updates
    /\ lastOffer.before["sector"] = None
    /\ companies[lastOffer.company_id].sector = lastOffer.primary["sector"]

====
